---- MODULE Spec2Model ----
(***************************************************************************)
(* A model of the communications listing widget (src/app.js):              *)
(*   - SearchIndexService: the inverted word index, search, getSuggestions *)
(*   - CommunicationDataService: facet / timeframe / search / sort state   *)
(*     and the applyFilters pipeline that recomputes filteredData.         *)
(*                                                                         *)
(* JavaScript strings are TLA+ strings (Len, SubSeq and \o act on them).   *)
(* A record of the collection is identified by its position in `data`      *)
(* (object identity); two positions may hold equal values.                 *)
(* The local time zone of the model is UTC, so the local calendar date of  *)
(* new Date("YYYY-MM-DD") is the date written.                             *)
(***************************************************************************)
EXTENDS Integers, Sequences, FiniteSets, TLC

VARIABLES
  data,          \* SearchIndexService.data / CommunicationDataService.data
  indexSummary,  \* SearchIndexService.indexSummary
  titleIndex,    \* SearchIndexService.titleIndex  (Map, in insertion order)
  summaryIndex,  \* SearchIndexService.summaryIndex (Map, in insertion order)
  activeFilters, \* CommunicationDataService.activeFilters
  searchTerm,    \* CommunicationDataService.searchTerm
  sortOrder,     \* CommunicationDataService.sortOrder
  filteredData,  \* CommunicationDataService.filteredData (positions in data)
  now,           \* the clock read by new Date() in applyFilters
  lastCall,      \* "constructor", or how the last call on the engine ended
  ret,           \* the value returned by the last call, when it was a read
  cardList,      \* CardListComponent: currentPage, cardsPerPage, isShowingAll
  cards,         \* the cards in #communications-container (positions in data)
  count,         \* the number shown in #communication-count
  loadMoreButton, \* the .load-more button: style.display and textContent
  chips,         \* the selected-filter chips in #filtered-tags
  lastEvent,     \* the last event the page handled, and the cardList it found
  searchBox      \* SearchComponent, #search-input, #search-suggestions, timers

\* the state of the page around the engine
pageVars == <<cardList, cards, count, loadMoreButton, chips, lastEvent>>

vars == <<data, indexSummary, titleIndex, summaryIndex, activeFilters,
          searchTerm, sortOrder, filteredData, now, lastCall, ret,
          cardList, cards, count, loadMoreButton, chips, lastEvent, searchBox>>

(***************************************************************************)
(* Bounds of the model.                                                    *)
(***************************************************************************)
\* the largest record collection handed to a constructor
MaxRecords == 2
\* the largest explicit limit passed to getSuggestions (besides the default)
MaxLimit == 2
\* loadMore is called while currentPage is at most this
MaxPages == 2
\* the largest record collection of a page
MaxPageRecords == 50
\* input events counted in a burst
MaxBurst == 2

(***************************************************************************)
(* JavaScript values: a string, null or undefined.                         *)
(***************************************************************************)
Str(s) == [t |-> "string", s |-> s]
Null == [t |-> "null", s |-> ""]
Undefined == [t |-> "undefined", s |-> ""]

\* !x for x a string, null or undefined
Falsy(x) == x.t # "string" \/ x.s = ""

(***************************************************************************)
(* String primitives.                                                      *)
(***************************************************************************)
UpperChars == "ABCDEFGHIJKLMNOPQRSTUVWXYZ"
LowerChars == "abcdefghijklmnopqrstuvwxyz"
\* the characters of the model in UTF-16 code unit order
CodeOrder == "\t\n #-/0123456789:" \o UpperChars \o LowerChars

CharAt(s, i) == SubSeq(s, i, i)

IsSpace(c) == c \in {" ", "\t", "\n"}

LowerChar(c) ==
  IF \E i \in 1..Len(UpperChars) : CharAt(UpperChars, i) = c
  THEN CharAt(LowerChars, CHOOSE i \in 1..Len(UpperChars) : CharAt(UpperChars, i) = c)
  ELSE c

RECURSIVE toLowerCase(_)
toLowerCase(s) ==
  IF Len(s) = 0 THEN ""
  ELSE LowerChar(CharAt(s, 1)) \o toLowerCase(SubSeq(s, 2, Len(s)))

RECURSIVE trimStart(_)
trimStart(s) ==
  IF Len(s) > 0 /\ IsSpace(CharAt(s, 1)) THEN trimStart(SubSeq(s, 2, Len(s))) ELSE s

RECURSIVE trimEnd(_)
trimEnd(s) ==
  IF Len(s) > 0 /\ IsSpace(CharAt(s, Len(s)))
  THEN trimEnd(SubSeq(s, 1, Len(s) - 1)) ELSE s

trim(s) == trimEnd(trimStart(s))

\* s.split(/\s+/): the pieces between maximal runs of whitespace
RECURSIVE SplitFrom(_, _, _, _)
SplitFrom(s, i, cur, pieces) ==
  IF i > Len(s) THEN Append(pieces, cur)
  ELSE IF IsSpace(CharAt(s, i))
       THEN IF i = 1 \/ ~IsSpace(CharAt(s, i - 1))
            THEN SplitFrom(s, i + 1, "", Append(pieces, cur))
            ELSE SplitFrom(s, i + 1, cur, pieces)
       ELSE SplitFrom(s, i + 1, cur \o CharAt(s, i), pieces)

split(s) == SplitFrom(s, 1, "", <<>>)

\* word.includes(term)
includes(word, term) ==
  \E i \in 1..(Len(word) - Len(term) + 1) : SubSeq(word, i, i + Len(term) - 1) = term

\* word.startsWith(term)
startsWith(word, term) ==
  Len(term) <= Len(word) /\ SubSeq(word, 1, Len(term)) = term

\* word.replace(/:/g, "")
RECURSIVE stripColons(_)
stripColons(s) ==
  IF Len(s) = 0 THEN ""
  ELSE (IF CharAt(s, 1) = ":" THEN "" ELSE CharAt(s, 1))
       \o stripColons(SubSeq(s, 2, Len(s)))

CharCode(c) == CHOOSE i \in 1..Len(CodeOrder) : CharAt(CodeOrder, i) = c

\* a < b in the order of Array.prototype.sort() without a comparator
RECURSIVE StrLess(_, _)
StrLess(a, b) ==
  IF Len(b) = 0 THEN FALSE
  ELSE IF Len(a) = 0 THEN TRUE
  ELSE IF CharAt(a, 1) = CharAt(b, 1)
       THEN StrLess(SubSeq(a, 2, Len(a)), SubSeq(b, 2, Len(b)))
       ELSE CharCode(CharAt(a, 1)) < CharCode(CharAt(b, 1))

\* array.includes(x)
InSeq(x, seq) == \E i \in 1..Len(seq) : seq[i] = x

\* array.indexOf(x), 1-based; 0 when absent
IndexOf(x, seq) ==
  IF InSeq(x, seq) THEN CHOOSE i \in 1..Len(seq) : seq[i] = x /\ \A j \in 1..(i - 1) : seq[j] # x
  ELSE 0

\* the places of seq that add an element to a Set that holds seen: those of
\* an element that is neither in seen nor at an earlier place
FirstPlaces(seq, seen) ==
  SelectSeq([i \in 1..Len(seq) |-> i],
            LAMBDA i : ~InSeq(seq[i], seen) /\ \A j \in 1..(i - 1) : seq[j] # seq[i])

\* the elements of seq at places
AtPlaces(seq, places) == [k \in 1..Len(places) |-> seq[places[k]]]

\* new Set(seq), seen being the elements already added: the elements in
\* first-seen order
Dedup(seq, seen) == seen \o AtPlaces(seq, FirstPlaces(seq, seen))

(***************************************************************************)
(* SearchIndexService.  A Map is the sequence of its entries in insertion  *)
(* order; an entry holds a word and the records indexed under it.          *)
(***************************************************************************)
MapHas(index, word) == \E k \in 1..Len(index) : index[k].word = word

MapPos(index, word) == CHOOSE k \in 1..Len(index) : index[k].word = word

\* the second half of the body of titleWords.forEach / summaryWords.forEach:
\* the item is pushed to the entry of a word unless the entry includes it
IndexWord(index, word, item) ==
  IF InSeq(item, index[MapPos(index, word)].items) THEN index
  ELSE [index EXCEPT ![MapPos(index, word)].items = Append(@, item)]

\* titleWords.forEach / summaryWords.forEach: a word the Map does not have
\* gets an empty entry, to which the item is then pushed
RECURSIVE IndexWords(_, _, _)
IndexWords(index, words, item) ==
  IF words = <<>> THEN index
  ELSE IF MapHas(index, Head(words))
       THEN IndexWords(IndexWord(index, Head(words), item), Tail(words), item)
       ELSE IndexWords(Append(index, [word |-> Head(words), items |-> <<item>>]),
                       Tail(words), item)

\* the callback of this.data.forEach in indexData, on the item at position n
IndexItem(index, item, n, withSummary) ==
  [title |-> IndexWords(index.title, split(toLowerCase(item.title)), n),
   summary |-> IF withSummary /\ item.summary # ""
               THEN IndexWords(index.summary, split(toLowerCase(item.summary)), n)
               ELSE index.summary]

\* this.data.forEach on the items lo..hi of d, in order, from the indexes
\* index: the first half of the items, then the second half from the
\* indexes that the first half leaves
RECURSIVE IndexItems(_, _, _, _, _)
IndexItems(index, d, withSummary, lo, hi) ==
  IF lo = hi THEN IndexItem(index, d[lo], lo, withSummary)
  ELSE CHOOSE after \in { IndexItems(half, d, withSummary, (lo + hi) \div 2 + 1, hi) :
                            half \in { IndexItems(index, d, withSummary, lo,
                                                  (lo + hi) \div 2) } } : TRUE

\* indexData: the two indexes after the items 1..n of d are indexed
indexData(d, withSummary, n) ==
  IF n = 0 THEN [title |-> <<>>, summary |-> <<>>]
  ELSE IndexItems([title |-> <<>>, summary |-> <<>>], d, withSummary, 1, n)

\* a variant of MatchedItems that matches a word only by its beginning
RECURSIVE MatchedItemsByPrefix(_, _)
MatchedItemsByPrefix(index, term) ==
  IF index = <<>> THEN <<>>
  ELSE (IF startsWith(Head(index).word, term) THEN Head(index).items ELSE <<>>)
       \o MatchedItemsByPrefix(Tail(index), term)

\* the records of the entries, in Map order, whose word contains term
RECURSIVE MatchedItems(_, _)
MatchedItems(index, term) ==
  IF index = <<>> THEN <<>>
  ELSE (IF includes(Head(index).word, term) THEN Head(index).items ELSE <<>>)
       \o MatchedItems(Tail(index), term)

\* a variant of search without the guard on an empty query: toLowerCase on
\* null or undefined is a TypeError, and the empty term is in every word
searchUnguarded(tIndex, sIndex, withSummary, query) ==
  IF query.t # "string" THEN [threw |-> TRUE, value |-> <<>>]
  ELSE LET term == trim(toLowerCase(query.s))
           inTitles == MatchedItems(tIndex, term)
           inSummaries == IF withSummary THEN MatchedItems(sIndex, term) ELSE <<>>
       IN [threw |-> FALSE, value |-> Dedup(inTitles \o inSummaries, <<>>)]

\* search(query) on an index service
search(tIndex, sIndex, withSummary, query) ==
  IF Falsy(query) \/ trim(query.s) = "" THEN [threw |-> FALSE, value |-> <<>>]
  ELSE LET term == trim(toLowerCase(query.s))
           inTitles == MatchedItems(tIndex, term)
           inSummaries == IF withSummary THEN MatchedItems(sIndex, term) ELSE <<>>
       IN [threw |-> FALSE, value |-> Dedup(inTitles \o inSummaries, <<>>)]

\* the cleaned words of the entries, in Map order, that start with term
RECURSIVE SuggestedWords(_, _)
SuggestedWords(index, term) ==
  IF index = <<>> THEN <<>>
  ELSE (IF startsWith(Head(index).word, term)
        THEN <<stripColons(Head(index).word)>> ELSE <<>>)
       \o SuggestedWords(Tail(index), term)

\* insertion of one string into a sorted sequence of strings
RECURSIVE InsertSorted(_, _)
InsertSorted(sorted, x) ==
  IF sorted = <<>> THEN <<x>>
  ELSE IF StrLess(x, Head(sorted)) THEN <<x>> \o sorted
  ELSE <<Head(sorted)>> \o InsertSorted(Tail(sorted), x)

\* Array.prototype.sort() of strings without a comparator
RECURSIVE SortStrings(_)
SortStrings(seq) ==
  IF seq = <<>> THEN <<>>
  ELSE InsertSorted(SortStrings(SubSeq(seq, 1, Len(seq) - 1)), seq[Len(seq)])

\* a variant of Slice0 that ignores the limit
Slice0Unlimited(seq, limit) == seq

\* array.slice(0, limit)
Slice0(seq, limit) ==
  LET end == IF limit < 0 THEN Len(seq) + limit
             ELSE IF limit > Len(seq) THEN Len(seq) ELSE limit
  IN SubSeq(seq, 1, end)

\* the default of the parameter limit of getSuggestions
DefaultLimit == 5

\* getSuggestions(prefix, limit) on an index service
getSuggestions(tIndex, sIndex, withSummary, prefix, limit) ==
  IF Falsy(prefix) \/ trim(prefix.s) = "" THEN [threw |-> FALSE, value |-> <<>>]
  ELSE LET term == trim(toLowerCase(prefix.s))
           fromTitles == SuggestedWords(tIndex, term)
           fromSummaries == IF withSummary THEN SuggestedWords(sIndex, term) ELSE <<>>
           suggestions == Dedup(fromTitles \o fromSummaries, <<>>)
       IN [threw |-> FALSE, value |-> Slice0(SortStrings(suggestions), limit)]

(***************************************************************************)
(* Date.  A Date is its local calendar day (days since 1970-01-01) and its *)
(* time of day (0 at midnight, 1 later in the day), or an Invalid Date.    *)
(***************************************************************************)
InvalidDate == [valid |-> FALSE, day |-> 0, tod |-> 0]

DateAt(day, tod) == [valid |-> TRUE, day |-> day, tod |-> tod]

\* the day number of a calendar date (month 1..12)
DaysFromCivil(y, m, d) ==
  LET yy == IF m <= 2 THEN y - 1 ELSE y
      era == yy \div 400
      yoe == yy - era * 400
      mp == IF m > 2 THEN m - 3 ELSE m + 9
      doy == (153 * mp + 2) \div 5 + d - 1
      doe == yoe * 365 + yoe \div 4 - yoe \div 100 + doy
  IN era * 146097 + doe - 719468

\* the calendar date of a day number, computed in steps: the day of the
\* 400-year era, the year of the era, the day of the year, the month
CivilOfMonth(yoe, era, doy, mp) ==
  [y |-> yoe + era * 400 + (IF mp >= 10 THEN 1 ELSE 0),
   m |-> IF mp < 10 THEN mp + 3 ELSE mp - 9,
   d |-> doy - (153 * mp + 2) \div 5 + 1]
CivilOfDayOfYear(yoe, era, doy) == CivilOfMonth(yoe, era, doy, (5 * doy + 2) \div 153)
CivilOfYearOfEra(doe, era, yoe) ==
  CivilOfDayOfYear(yoe, era, doe - (365 * yoe + yoe \div 4 - yoe \div 100))
CivilOfDayOfEra(doe, era) ==
  CivilOfYearOfEra(doe, era,
                   (doe - doe \div 1460 + doe \div 36524 - doe \div 146096) \div 365)
CivilOfShifted(z) == CivilOfDayOfEra(z % 146097, z \div 146097)
CivilFromDays(n) == CivilOfShifted(n + 719468)

\* MakeDay of ECMAScript: month0 is zero-based and may lie outside 0..11,
\* dt may lie outside the month
MakeDay(y, month0, dt) ==
  DaysFromCivil(y + month0 \div 12, (month0 % 12) + 1, 1) + dt - 1

getFullYear(D) == CivilFromDays(D.day).y
getMonth(D) == CivilFromDays(D.day).m - 1
getDate(D) == CivilFromDays(D.day).d

\* D with its day replaced by MakeDay(y, month0, dt)
WithDay(D, y, month0, dt) == [D EXCEPT !.day = MakeDay(y, month0, dt)]

\* the setters keep the other calendar fields c of D
SetDateOf(D, c, dt) == WithDay(D, c.y, c.m - 1, dt)
SetMonthOf(D, c, month0) == WithDay(D, c.y, month0, c.d)
SetFullYearOf(D, c, y) == WithDay(D, y, c.m - 1, c.d)

setDate(D, dt) == IF D.valid THEN SetDateOf(D, CivilFromDays(D.day), dt) ELSE D
setMonth(D, month0) == IF D.valid THEN SetMonthOf(D, CivilFromDays(D.day), month0) ELSE D
setFullYear(D, y) == IF D.valid THEN SetFullYearOf(D, CivilFromDays(D.day), y) ELSE D

\* new Date(D.getFullYear(), D.getMonth(), D.getDate()): local midnight
Midnight(D) == IF D.valid THEN DateAt(D.day, 0) ELSE InvalidDate

Digits == "0123456789"
IsDigit(c) == \E i \in 1..Len(Digits) : CharAt(Digits, i) = c
DigitOf(c) == (CHOOSE i \in 1..Len(Digits) : CharAt(Digits, i) = c) - 1

RECURSIVE NumberOf(_)
NumberOf(s) ==
  IF Len(s) = 0 THEN 0
  ELSE NumberOf(SubSeq(s, 1, Len(s) - 1)) * 10 + DigitOf(CharAt(s, Len(s)))

AllDigits(s) == \A i \in 1..Len(s) : IsDigit(CharAt(s, i))

\* new Date(dateString) for a date-only ISO string "YYYY-MM-DD" (midnight);
\* a string of any other shape in the model gives an Invalid Date
ParseDate(s) ==
  IF /\ Len(s) = 10
     /\ CharAt(s, 5) = "-" /\ CharAt(s, 8) = "-"
     /\ AllDigits(SubSeq(s, 1, 4)) /\ AllDigits(SubSeq(s, 6, 7))
     /\ AllDigits(SubSeq(s, 9, 10))
     /\ NumberOf(SubSeq(s, 6, 7)) \in 1..12
     /\ NumberOf(SubSeq(s, 9, 10)) \in 1..31
  THEN DateAt(MakeDay(NumberOf(SubSeq(s, 1, 4)), NumberOf(SubSeq(s, 6, 7)) - 1,
                      NumberOf(SubSeq(s, 9, 10))), 0)
  ELSE InvalidDate

\* a > b, a >= b and the sign of a - b on Dates (false / NaN on Invalid Date)
DateGreater(a, b) ==
  a.valid /\ b.valid /\ (a.day > b.day \/ (a.day = b.day /\ a.tod > b.tod))
DateAtLeast(a, b) ==
  a.valid /\ b.valid /\ (a.day > b.day \/ (a.day = b.day /\ a.tod >= b.tod))
\* a - b > 0; a NaN difference is not greater than zero
DiffPositive(a, b) == DateGreater(a, b)

(***************************************************************************)
(* CommunicationDataService.  An engine is the record of its fields; a     *)
(* facet property of a record is [arr, v]: an array with elements v, or a  *)
(* scalar v[1] (v empty: the property is undefined).                       *)
(***************************************************************************)
Arr(v) == [arr |-> TRUE, v |-> v]
Scalar(x) == [arr |-> FALSE, v |-> <<x>>]

\* the checkbox facets of activeFilters, in key order
FacetKeys == <<"topics", "product-categories", "communication-type">>
\* all keys of activeFilters
FilterKeys == {FacetKeys[i] : i \in 1..Len(FacetKeys)} \cup {"timeframe"}

timeframes ==
  <<"All Time", "Last Year", "Last 9 Months", "Last 6 Months", "Last 3 Months",
    "Last Month", "Last Week">>

\* the switch of applyFilters mapping a filter type to the item's property
ItemProperty(item, filterType) ==
  CASE filterType = "topics" -> item.topic
    [] filterType = "product-categories" -> item.productCategory
    [] filterType = "communication-type" -> item.communicationType
    [] OTHER -> [arr |-> FALSE, v |-> <<>>]

\* a variant of MatchesFacet that wants every selected value in an array property
MatchesFacetEvery(item, filterType, selectedValues) ==
  LET itemProperty == ItemProperty(item, filterType)
  IN IF itemProperty.arr
     THEN \A i \in 1..Len(selectedValues) : InSeq(selectedValues[i], itemProperty.v)
     ELSE Len(itemProperty.v) = 1 /\ InSeq(itemProperty.v[1], selectedValues)

\* the callback of activeFilterTypes.every: does item match one active facet
MatchesFacet(item, filterType, selectedValues) ==
  LET itemProperty == ItemProperty(item, filterType)
  IN IF itemProperty.arr
     THEN \E i \in 1..Len(selectedValues) : InSeq(selectedValues[i], itemProperty.v)
     ELSE Len(itemProperty.v) = 1 /\ InSeq(itemProperty.v[1], selectedValues)

\* the category step: every facet with a non-empty selection must match
MatchesFacets(item, af) ==
  \A i \in 1..Len(FacetKeys) :
    Len(af[FacetKeys[i]]) > 0 => MatchesFacet(item, FacetKeys[i], af[FacetKeys[i]])

\* filterDate after the first switch of applyFilters
FilterDate(timeframe, clock) ==
  CASE timeframe = "Last Week" -> setDate(clock, getDate(clock) - 7)
    [] timeframe = "Last Month" ->
         setDate(setMonth(clock, getMonth(clock) - 1), getDate(clock))
    [] timeframe = "Last 3 Months" ->
         setDate(setMonth(clock, getMonth(clock) - 3), getDate(clock))
    [] timeframe = "Last 6 Months" ->
         setDate(setMonth(clock, getMonth(clock) - 6), getDate(clock))
    [] timeframe = "Last 9 Months" ->
         setDate(setMonth(clock, getMonth(clock) - 9), getDate(clock))
    [] timeframe = "Last Year" ->
         setDate(setFullYear(clock, getFullYear(clock) - 1), getDate(clock))
    [] OTHER -> clock

\* futureFilterDate after the second switch of applyFilters
FutureFilterDate(timeframe, itemDate) ==
  CASE timeframe = "Last Week" -> setDate(itemDate, getDate(itemDate) - 7)
    [] timeframe = "Last Month" -> setMonth(itemDate, getMonth(itemDate) - 1)
    [] timeframe = "Last 3 Months" -> setMonth(itemDate, getMonth(itemDate) - 3)
    [] timeframe = "Last 6 Months" -> setMonth(itemDate, getMonth(itemDate) - 6)
    [] timeframe = "Last 9 Months" -> setMonth(itemDate, getMonth(itemDate) - 9)
    [] timeframe = "Last Year" -> setFullYear(itemDate, getFullYear(itemDate) - 1)
    [] OTHER -> itemDate

\* a variant of KeepsDate without the branch of the future dates
KeepsDateByNow(itemDate, timeframe, clock) ==
  /\ DateAtLeast(Midnight(itemDate), Midnight(FilterDate(timeframe, clock)))
  /\ DateAtLeast(Midnight(clock), Midnight(itemDate))

\* the decision of the timeframe filter on the parsed date of an item
KeepsDate(itemDate, timeframe, clock) ==
  IF DateGreater(Midnight(itemDate), Midnight(clock))
  THEN \* a future date: the item's own date is the reference point
       DateAtLeast(Midnight(itemDate), FutureFilterDate(timeframe, itemDate))
  ELSE /\ DateAtLeast(Midnight(itemDate), Midnight(FilterDate(timeframe, clock)))
       /\ DateAtLeast(Midnight(clock), Midnight(itemDate))

\* a variant of InTimeframe that keeps an item whose date does not parse
InTimeframeOrInvalid(item, timeframe, clock) ==
  ~ParseDate(item.date).valid \/ KeepsDate(ParseDate(item.date), timeframe, clock)

\* the callback of the timeframe filter
InTimeframe(item, timeframe, clock) == KeepsDate(ParseDate(item.date), timeframe, clock)

\* a variant of SortsAfter with the two sort orders exchanged
SortsAfterExchanged(a, b, order) ==
  IF order = "newest" THEN DiffPositive(ParseDate(a.date), ParseDate(b.date))
  ELSE DiffPositive(ParseDate(b.date), ParseDate(a.date))

\* the comparator of result.sort is positive on (a, b): a must follow b
SortsAfter(a, b, order) ==
  IF order = "newest" THEN DiffPositive(ParseDate(b.date), ParseDate(a.date))
  ELSE DiffPositive(ParseDate(a.date), ParseDate(b.date))

\* one insertion of the stable sort: x moves left past the records it precedes
RECURSIVE InsertByDate(_, _, _, _)
InsertByDate(d, sorted, x, order) ==
  IF sorted = <<>> THEN <<x>>
  ELSE IF SortsAfter(d[sorted[Len(sorted)]], d[x], order)
       THEN Append(InsertByDate(d, SubSeq(sorted, 1, Len(sorted) - 1), x, order),
                   sorted[Len(sorted)])
       ELSE Append(sorted, x)

\* the insertions of result[lo..hi], in order, into sorted: the first half
\* of them, then the second half into what the first half leaves
RECURSIVE InsertAllByDate(_, _, _, _, _, _)
InsertAllByDate(d, sorted, result, order, lo, hi) ==
  IF lo = hi THEN InsertByDate(d, sorted, result[lo], order)
  ELSE CHOOSE after \in { InsertAllByDate(d, half, result, order, (lo + hi) \div 2 + 1, hi) :
                            half \in { InsertAllByDate(d, sorted, result, order, lo,
                                                       (lo + hi) \div 2) } } : TRUE

\* result.sort(comparator): a stable sort; a NaN comparison counts as equal
SortByDate(d, result, order) ==
  IF result = <<>> THEN <<>>
  ELSE InsertAllByDate(d, <<>>, result, order, 1, Len(result))

\* [...this.data]: the records by position
AllItems(d) == [i \in 1..Len(d) |-> i]

\* the timeframe step of applyFilters
TimeframeStep(d, result, timeframe, clock) ==
  SelectSeq(result, LAMBDA i : timeframe # "All Time" => InTimeframe(d[i], timeframe, clock))

\* a variant of SearchStep that searches for every term but the empty string
SearchStepUntrimmed(result, term, searchResults) ==
  SelectSeq(result, LAMBDA i : ~Falsy(term) => InSeq(i, searchResults))

\* the search step of applyFilters
SearchStep(result, term, searchResults) ==
  SelectSeq(result, LAMBDA i : (~Falsy(term) /\ trim(term.s) # "") => InSeq(i, searchResults))

\* the category step of applyFilters
FacetStep(d, result, af) == SelectSeq(result, LAMBDA i : MatchesFacets(d[i], af))

\* the filteredData that applyFilters computes for engine e
FilteredOf(e) ==
  SortByDate(e.data,
    FacetStep(e.data,
      SearchStep(
        TimeframeStep(e.data, AllItems(e.data), e.activeFilters["timeframe"], e.now),
        e.searchTerm,
        search(e.titleIndex, e.summaryIndex, e.indexSummary, e.searchTerm).value),
      e.activeFilters),
    e.sortOrder)

\* a variant of DataAfterSort in which result is this.data itself, not a copy:
\* while no filter has replaced result by a new array, the sort reorders data
DataAfterSortInPlace(e) ==
  IF /\ e.activeFilters["timeframe"] = "All Time"
     /\ (Falsy(e.searchTerm) \/ trim(e.searchTerm.s) = "")
     /\ \A i \in 1..Len(FacetKeys) : e.activeFilters[FacetKeys[i]] = <<>>
  THEN [i \in 1..Len(e.data) |->
          e.data[SortByDate(e.data, AllItems(e.data), e.sortOrder)[i]]]
  ELSE e.data

\* this.data after applyFilters: result starts as the copy [...this.data], and
\* filter and sort act on result only
DataAfterSort(e) == e.data

\* applyFilters()
applyFilters(e) ==
  [e EXCEPT !.filteredData = FilteredOf(e), !.data = DataAfterSort(e), !.threw = FALSE]

\* a call that ends in a TypeError: nothing after the failing statement runs
Throw(e) == [e EXCEPT !.threw = TRUE]

\* array.splice(index, 1) at the position of value, when it is present
Without(selected, value, index) ==
  IF index # 0
  THEN SubSeq(selected, 1, index - 1) \o SubSeq(selected, index + 1, Len(selected))
  ELSE selected

\* does updateFilter end in a TypeError: activeFilters[filterType] is undefined
\* for an unknown type, and for "timeframe" it is a string, which has includes
\* and indexOf but neither push nor splice
UpdateFilterThrows(af, filterType, value, isActive) ==
  \/ filterType \notin FilterKeys
  \/ /\ filterType = "timeframe"
     /\ isActive = ~includes(af[filterType], value)

\* a variant of UpdatedSelection that pushes without looking for the value
UpdatedSelectionPushing(selected, filterType, value, isActive) ==
  IF filterType = "timeframe" THEN selected
  ELSE IF isActive THEN Append(selected, value)
       ELSE Without(selected, value, IndexOf(value, selected))

\* the selection of filterType after the branch of updateFilter
UpdatedSelection(selected, filterType, value, isActive) ==
  IF filterType = "timeframe" THEN selected
  ELSE IF isActive
       THEN IF ~InSeq(value, selected) THEN Append(selected, value) ELSE selected
       ELSE Without(selected, value, IndexOf(value, selected))

\* updateFilter(filterType, value, isActive)
updateFilter(e, filterType, value, isActive) ==
  IF UpdateFilterThrows(e.activeFilters, filterType, value, isActive) THEN Throw(e)
  ELSE applyFilters([e EXCEPT !.activeFilters[filterType] =
                       UpdatedSelection(@, filterType, value, isActive)])

\* updateSearch(searchTerm)
updateSearch(e, term) == applyFilters([e EXCEPT !.searchTerm = term])

\* setSortOrder(order)
setSortOrder(e, order) == applyFilters([e EXCEPT !.sortOrder = order])

\* the timeframe branch of CommunicationApp.handleFilterChange
setTimeframe(e, label) == applyFilters([e EXCEPT !.activeFilters["timeframe"] = label])

\* the selection of type after the branch of removeFilter
RemovedSelection(selected, type, value) ==
  IF type = "timeframe" THEN "All Time"
  ELSE Without(selected, value, IndexOf(value, selected))

\* removeFilter(type, value)
removeFilter(e, type, value) ==
  IF type \notin FilterKeys THEN Throw(e)
  ELSE applyFilters([e EXCEPT !.activeFilters[type] = RemovedSelection(@, type, value)])

\* getFilteredData()
getFilteredData(e) == e.filteredData

\* the elements of the array getUniqueValues returns: a string, the array
\* object held by the record at a position of data, or undefined
StrValue(x) == [kind |-> "string", s |-> x, of |-> 0]
ArrayValue(n) == [kind |-> "array", s |-> "", of |-> n]
UndefinedValue == [kind |-> "undefined", s |-> "", of |-> 0]

\* item[property]
ItemField(item, property) ==
  CASE property = "topic" -> item.topic
    [] property = "productCategory" -> item.productCategory
    [] property = "communicationType" -> item.communicationType
    [] OTHER -> [arr |-> FALSE, v |-> <<>>]

\* the values added to allValues by the items 1..n: the elements of the
\* properties that are arrays
RECURSIVE FlattenedValues(_, _, _)
FlattenedValues(d, property, n) ==
  IF n = 0 THEN <<>>
  ELSE FlattenedValues(d, property, n - 1)
       \o (IF ItemField(d[n], property).arr
           THEN [i \in 1..Len(ItemField(d[n], property).v) |->
                   StrValue(ItemField(d[n], property).v[i])]
           ELSE <<>>)

\* this.data.map(item => item[property])
MappedValues(d, property) ==
  [n \in 1..Len(d) |->
     IF ItemField(d[n], property).arr THEN ArrayValue(n)
     ELSE IF ItemField(d[n], property).v = <<>> THEN UndefinedValue
     ELSE StrValue(ItemField(d[n], property).v[1])]

\* getUniqueValues(property)
getUniqueValues(e, property) ==
  IF property \in {"topic", "productCategory"}
  THEN Dedup(FlattenedValues(e.data, property, Len(e.data)), <<>>)
  ELSE Dedup(MappedValues(e.data, property), <<>>)

\* the entries getActiveFilters pushes for the facets keys[1..n]
RECURSIVE FacetEntries(_, _, _)
FacetEntries(af, keys, n) ==
  IF n = 0 THEN <<>>
  ELSE FacetEntries(af, keys, n - 1)
       \o [i \in 1..Len(af[keys[n]]) |->
             [type |-> keys[n], value |-> af[keys[n]][i], displayValue |-> af[keys[n]][i]]]

\* a variant of getActiveFilters that leaves the timeframe out
getActiveFiltersOfFacets(e) == FacetEntries(e.activeFilters, FacetKeys, Len(FacetKeys))

\* getActiveFilters()
getActiveFilters(e) ==
  FacetEntries(e.activeFilters, FacetKeys, Len(FacetKeys))
  \o (IF e.activeFilters["timeframe"] # "All Time"
      THEN <<[type |-> "timeframe", value |-> e.activeFilters["timeframe"],
              displayValue |-> e.activeFilters["timeframe"]]>>
      ELSE <<>>)

(***************************************************************************)
(* convertToISO, the same text in CommunicationDataService and in          *)
(* CardListComponent.  new Date(dateString) on a string of the             *)
(* MM/DD/YYYY shape is implementation-defined: the result is passed in.    *)
(***************************************************************************)
IsAlpha(c) ==
  \/ \E i \in 1..Len(UpperChars) : CharAt(UpperChars, i) = c
  \/ \E i \in 1..Len(LowerChars) : CharAt(LowerChars, i) = c

\* c is of the class [A-Za-z], \s or \d
InClass(c, class) ==
  CASE class = "A-Za-z" -> IsAlpha(c)
    [] class = "s" -> IsSpace(c)
    [] class = "d" -> IsDigit(c)

\* the end (exclusive) of the longest run of characters of a class from i on
RunEnd(s, i, class) ==
  CHOOSE j \in i..(Len(s) + 1) :
    /\ \A k \in i..(j - 1) : InClass(CharAt(s, k), class)
    /\ (j = Len(s) + 1 \/ ~InClass(CharAt(s, j), class))

NoMatch == [ok |-> FALSE, g1 |-> "", g2 |-> "", g3 |-> ""]

\* dateString.match(/^\d{4}-\d{2}-\d{2}/)
MatchesISOPrefix(s) ==
  /\ Len(s) >= 10
  /\ AllDigits(SubSeq(s, 1, 4)) /\ CharAt(s, 5) = "-"
  /\ AllDigits(SubSeq(s, 6, 7)) /\ CharAt(s, 8) = "-"
  /\ AllDigits(SubSeq(s, 9, 10))

\* formats[0]: /^([A-Za-z]+)\s+(\d{1,2}),\s+(\d{4})$/
MatchMonthDayYear(s) ==
  LET a == RunEnd(s, 1, "A-Za-z")
      b == RunEnd(s, a, "s")
      c == RunEnd(s, b, "d")
      d == RunEnd(s, c + 1, "s")
      e == RunEnd(s, d, "d")
  IN IF /\ a > 1 /\ b > a /\ c - b \in 1..2
        /\ c <= Len(s) /\ CharAt(s, c) = ","
        /\ d > c + 1 /\ e - d = 4 /\ e = Len(s) + 1
     THEN [ok |-> TRUE, g1 |-> SubSeq(s, 1, a - 1), g2 |-> SubSeq(s, b, c - 1),
           g3 |-> SubSeq(s, d, e - 1)]
     ELSE NoMatch

\* formats[1]: /^(\d{1,2})\s+([A-Za-z]+)\s+(\d{4})$/
MatchDayMonthYear(s) ==
  LET a == RunEnd(s, 1, "d")
      b == RunEnd(s, a, "s")
      c == RunEnd(s, b, "A-Za-z")
      d == RunEnd(s, c, "s")
      e == RunEnd(s, d, "d")
  IN IF /\ a - 1 \in 1..2 /\ b > a /\ c > b /\ d > c
        /\ e - d = 4 /\ e = Len(s) + 1
     THEN [ok |-> TRUE, g1 |-> SubSeq(s, 1, a - 1), g2 |-> SubSeq(s, b, c - 1),
           g3 |-> SubSeq(s, d, e - 1)]
     ELSE NoMatch

\* the three runs of digits of a string digits/digits/digits, with the
\* lengths wanted of the first and the last run
MatchSlashed(s, firstLengths, lastLengths) ==
  LET a == RunEnd(s, 1, "d")
      b == RunEnd(s, a + 1, "d")
      c == RunEnd(s, b + 1, "d")
  IN IF /\ a - 1 \in firstLengths
        /\ a <= Len(s) /\ CharAt(s, a) = "/"
        /\ b - (a + 1) \in 1..2
        /\ b <= Len(s) /\ CharAt(s, b) = "/"
        /\ c - (b + 1) \in lastLengths /\ c = Len(s) + 1
     THEN [ok |-> TRUE, g1 |-> SubSeq(s, 1, a - 1), g2 |-> SubSeq(s, a + 1, b - 1),
           g3 |-> SubSeq(s, b + 1, c - 1)]
     ELSE NoMatch

\* formats[2]: /^(\d{1,2})\/(\d{1,2})\/(\d{4})$/
MatchMonthDaySlashed(s) == MatchSlashed(s, 1..2, {4})

\* formats[3]: /^(\d{4})\/(\d{1,2})\/(\d{1,2})$/
MatchYearFirstSlashed(s) == MatchSlashed(s, {4}, 1..2)

monthNames ==
  <<"January", "February", "March", "April", "May", "June", "July", "August",
    "September", "October", "November", "December">>

\* n.toString() for an integer n >= 0
RECURSIVE NumToString(_)
NumToString(n) ==
  IF n < 10 THEN CharAt(Digits, n + 1)
  ELSE NumToString(n \div 10) \o CharAt(Digits, (n % 10) + 1)

\* a variant of padStart2 that pads nothing
padStartNothing(s) == s

\* s.padStart(2, "0")
padStart2(s) == IF Len(s) = 0 THEN "00" ELSE IF Len(s) = 1 THEN "0" \o s ELSE s

\* a variant of DateText that writes day/month/year
DateTextDayFirst(year, month, day) == day \o "/" \o month \o "/" \o year

\* the template `${year}-${month}-${day}`
DateText(year, month, day) == year \o "-" \o month \o "-" \o day

\* (monthNames.indexOf(name) + 1).toString().padStart(2, "0")
MonthText(name) == padStart2(NumToString(IndexOf(name, monthNames)))

\* a variant of SlashedDate without the isNaN test: the fields of an Invalid
\* Date are NaN
SlashedDateUnchecked(date) ==
  IF date.valid
  THEN [returns |-> TRUE,
        text |-> DateText(NumToString(getFullYear(date)),
                          padStart2(NumToString(getMonth(date) + 1)),
                          padStart2(NumToString(getDate(date))))]
  ELSE [returns |-> TRUE, text |-> "NaN-NaN-NaN"]

\* the branch of formats[2] on date = new Date(dateString): the text
\* returned, or `continue` when the date is invalid
SlashedDate(date) ==
  IF date.valid
  THEN [returns |-> TRUE,
        text |-> DateText(NumToString(getFullYear(date)),
                          padStart2(NumToString(getMonth(date) + 1)),
                          padStart2(NumToString(getDate(date))))]
  ELSE [returns |-> FALSE, text |-> ""]

\* formats[3], m being the match of dateString against it; no match ends
\* the loop and dateString is returned
TryYearFirstSlashed(s, m) ==
  IF m.ok THEN DateText(m.g1, padStart2(m.g2), padStart2(m.g3)) ELSE s

\* formats[2], m being the match and converted the outcome of its branch
TryMonthDaySlashed(s, m, converted) ==
  IF m.ok /\ converted.returns THEN converted.text
  ELSE TryYearFirstSlashed(s, MatchYearFirstSlashed(s))

\* formats[1]
TryDayMonthYear(s, date, m) ==
  IF m.ok THEN DateText(m.g3, MonthText(m.g2), padStart2(m.g1))
  ELSE TryMonthDaySlashed(s, MatchMonthDaySlashed(s), SlashedDate(date))

\* formats[0]
TryMonthDayYear(s, date, m) ==
  IF m.ok THEN DateText(m.g3, MonthText(m.g1), padStart2(m.g2))
  ELSE TryDayMonthYear(s, date, MatchDayMonthYear(s))

\* convertToISO(dateString), where date is what new Date(dateString) gives
convertToISO(s, date) ==
  IF MatchesISOPrefix(s) THEN s
  ELSE TryMonthDayYear(s, date, MatchMonthDayYear(s))

\* what new Date(s) can give for month/day/year: the local midnight of the
\* date; for a day past the end of the month either the date rolled over
\* into the next month or an Invalid Date, by the engine, and so for a year
\* below 1000; an Invalid Date for a month or a day out of range
SlashedDates(month, day, year) ==
  IF month \in 1..12 /\ day \in 1..31
  THEN IF day <= MakeDay(year, month, 1) - MakeDay(year, month - 1, 1) /\ year >= 1000
       THEN { DateAt(MakeDay(year, month - 1, day), 0) }
       ELSE { DateAt(MakeDay(year, month - 1, day), 0), InvalidDate }
  ELSE { InvalidDate }

DatesOfMatch(m) ==
  IF m.ok THEN SlashedDates(NumberOf(m.g1), NumberOf(m.g2), NumberOf(m.g3))
  ELSE { InvalidDate }

\* what new Date(s) can give in convertToISO
DatesOf(s) == DatesOfMatch(MatchMonthDaySlashed(s))

(***************************************************************************)
(* CardListComponent: the pagination cursor and the page window.           *)
(***************************************************************************)
\* this.cardsPerPage of the constructor
CardsPerPage == 24

\* a variant of renderCards that shows one page only, not the pages so far
renderCardsOnePage(cl, d) ==
  [cards |-> IF cl.isShowingAll THEN d
             ELSE SubSeq(d, (cl.currentPage - 1) * cl.cardsPerPage + 1,
                         IF cl.currentPage * cl.cardsPerPage > Len(d) THEN Len(d)
                         ELSE cl.currentPage * cl.cardsPerPage),
   count |-> Len(d)]

\* renderCards(data): the cards put into the container, and the count shown
\* and returned
renderCards(cl, d) ==
  [cards |-> IF cl.isShowingAll THEN d ELSE Slice0(d, cl.currentPage * cl.cardsPerPage),
   count |-> Len(d)]

\* a variant of resetPagination that leaves isShowingAll as it is
resetPaginationToPageOne(cl) == [cl EXCEPT !.currentPage = 1]

\* resetPagination()
resetPagination(cl) == [cl EXCEPT !.currentPage = 1, !.isShowingAll = FALSE]

\* loadMore()
loadMore(cl) == [cl EXCEPT !.currentPage = @ + 1]

\* showAll()
showAll(cl) == [cl EXCEPT !.isShowingAll = TRUE]

\* showLess()
showLess(cl) == [cl EXCEPT !.isShowingAll = FALSE, !.currentPage = 1]

\* toggleShowAll()
toggleShowAll(cl) == IF cl.isShowingAll THEN showLess(cl) ELSE showAll(cl)

\* the load-more button as updateDisplay leaves it
ButtonAfterDisplay(cl, totalCount) ==
  [display |-> IF totalCount > 0 THEN "block" ELSE "none",
   textContent |-> IF cl.isShowingAll \/ totalCount <= cl.cardsPerPage
                   THEN "SHOW LESS" ELSE "LOAD MORE"]

\* a variant of NewEngine that builds the index service with summary
\* indexing on: new SearchIndexService(rawData, true)
NewEngineWithSummaries(rawData, clock) ==
  LET index == indexData(rawData, TRUE, Len(rawData))
  IN [data |-> rawData,
      indexSummary |-> TRUE,
      titleIndex |-> index.title,
      summaryIndex |-> index.summary,
      activeFilters |-> [k \in FilterKeys |-> IF k = "timeframe" THEN "All Time" ELSE <<>>],
      searchTerm |-> Str(""),
      sortOrder |-> "newest",
      filteredData |-> AllItems(rawData),
      now |-> clock,
      threw |-> FALSE]

\* the constructor of CommunicationDataService on rawData, read at clock
NewEngine(rawData, clock) ==
  LET index == indexData(rawData, FALSE, Len(rawData))
  IN [data |-> rawData,
      indexSummary |-> FALSE,
      titleIndex |-> index.title,
      summaryIndex |-> index.summary,
      activeFilters |-> [k \in FilterKeys |-> IF k = "timeframe" THEN "All Time" ELSE <<>>],
      searchTerm |-> Str(""),
      sortOrder |-> "newest",
      filteredData |-> AllItems(rawData),
      now |-> clock,
      threw |-> FALSE]

(***************************************************************************)
(* The inputs of the model.                                                *)
(***************************************************************************)
Catalogue ==
  { [title |-> "Fan Array Guide", summary |-> "louver tips", date |-> "2024-10-28",
     topic |-> Arr(<<"HVAC", "Fans">>), productCategory |-> Arr(<<"Dampers">>),
     communicationType |-> Scalar("Guide")],
    [title |-> "Louver Update: fans", summary |-> "", date |-> "2025-03-10",
     topic |-> Arr(<<"Fans">>), productCategory |-> Arr(<<>>),
     communicationType |-> Scalar("Bulletin")],
    [title |-> " fan  FAN", summary |-> "Update: guide", date |-> "2024-10-28",
     topic |-> Scalar("HVAC"), productCategory |-> Arr(<<"Dampers">>),
     communicationType |-> Scalar("Guide")],
    [title |-> "Notes", summary |-> "fan: a", date |-> "TBD",
     topic |-> Arr(<<"HVAC">>), productCategory |-> Arr(<<"Louvers">>),
     communicationType |-> Scalar("Guide")] }

\* the record collections: up to MaxRecords distinct records, in any order
Collections ==
  { d \in UNION { [1..n -> Catalogue] : n \in 0..MaxRecords } :
      \A i, j \in 1..Len(d) : i # j => d[i] # d[j] }

\* the clocks: 2025-01-15, during the day
Clocks == { DateAt(DaysFromCivil(2025, 1, 15), 1) }

\* the filter types passed to updateFilter / removeFilter
CallTypes == FilterKeys \cup {"authors"}

\* the values passed with a filter type
CallValues(type) ==
  CASE type = "topics" -> {"HVAC", "Fans"}
    [] type = "product-categories" -> {"Dampers"}
    [] type = "communication-type" -> {"Guide"}
    [] type = "timeframe" -> {"All Time", "Last Month"}
    [] OTHER -> {"HVAC"}

SearchTerms == { Str(""), Str(" Fan ") }

SortOrders == {"newest", "oldest"}

Queries ==
  { Str(""), Str(" \t"), Null, Undefined, Str("fan"), Str(" AN "), Str("Update:"),
    Str("l"), Str("fan a"), Str("fan:") }

Limits == (0..MaxLimit) \cup {DefaultLimit}

(***************************************************************************)
(* State, seen as one engine record.                                       *)
(***************************************************************************)
Engine ==
  [data |-> data, indexSummary |-> indexSummary, titleIndex |-> titleIndex,
   summaryIndex |-> summaryIndex, activeFilters |-> activeFilters,
   searchTerm |-> searchTerm, sortOrder |-> sortOrder,
   filteredData |-> filteredData, now |-> now, threw |-> lastCall = "threw"]

\* new CardListComponent(container, countElement)
NewCardList == [currentPage |-> 1, cardsPerPage |-> CardsPerPage, isShowingAll |-> FALSE]

\* new SearchComponent(...) over an empty #search-input and an empty
\* #search-suggestions; no timer is armed, no input event has come (Null)
NewSearchComponent ==
  [value |-> "", debounceTimeout |-> 0, timers |-> {}, suggestions |-> <<>>,
   display |-> "", selectedIndex |-> -1, lastInput |-> Null, timerCalls |-> <<>>,
   burst |-> 0]

\* an engine that is not part of a page: nothing is rendered
NoPage ==
  /\ searchBox = NewSearchComponent
  /\ cardList = NewCardList
  /\ cards = <<>>
  /\ count = 0
  /\ loadMoreButton = [display |-> "block", textContent |-> "LOAD MORE"]
  /\ chips = <<>>
  /\ lastEvent = [name |-> "none", found |-> NewCardList]

\* ret after a call that returns no value
NoQuery == [op |-> "none", threw |-> FALSE, value |-> <<>>]

\* the state after a call that left the engine as e
Becomes(e) ==
  /\ data' = e.data
  /\ indexSummary' = e.indexSummary
  /\ titleIndex' = e.titleIndex
  /\ summaryIndex' = e.summaryIndex
  /\ activeFilters' = e.activeFilters
  /\ searchTerm' = e.searchTerm
  /\ sortOrder' = e.sortOrder
  /\ filteredData' = e.filteredData
  /\ lastCall' = (IF e.threw THEN "threw" ELSE "returned")
  /\ ret' = NoQuery
  /\ UNCHANGED <<now, pageVars, searchBox>>

\* new CommunicationDataService(rawData)
Init ==
  \E rawData \in Collections, clock \in Clocks :
    LET e == NewEngine(rawData, clock)
    IN /\ data = e.data
       /\ indexSummary = e.indexSummary
       /\ titleIndex = e.titleIndex
       /\ summaryIndex = e.summaryIndex
       /\ activeFilters = e.activeFilters
       /\ searchTerm = e.searchTerm
       /\ sortOrder = e.sortOrder
       /\ filteredData = e.filteredData
       /\ now = e.now
       /\ lastCall = "constructor"
       /\ ret = NoQuery
       /\ NoPage

UpdateFilter ==
  \E type \in CallTypes, isActive \in BOOLEAN :
    \E value \in CallValues(type) :
      Becomes(updateFilter(Engine, type, value, isActive))

RemoveFilter ==
  \E type \in CallTypes :
    \E value \in CallValues(type) :
      Becomes(removeFilter(Engine, type, value))

UpdateSearch ==
  \E term \in SearchTerms : Becomes(updateSearch(Engine, term))

SetSortOrder ==
  \E order \in SortOrders : Becomes(setSortOrder(Engine, order))

SetTimeframe ==
  \E i \in 1..Len(timeframes) : Becomes(setTimeframe(Engine, timeframes[i]))

Next ==
  \/ UpdateFilter
  \/ RemoveFilter
  \/ UpdateSearch
  \/ SetSortOrder
  \/ SetTimeframe

Spec == Init /\ [][Next]_vars

(***************************************************************************)
(* SearchIndexService on its own: new SearchIndexService(data, flag),      *)
(* then any sequence of queries.                                           *)
(***************************************************************************)
InitSearch ==
  \E rawData \in Collections, flag \in BOOLEAN, clock \in Clocks :
    LET e == NewEngine(rawData, clock)
        index == indexData(rawData, flag, Len(rawData))
    IN /\ data = rawData
       /\ indexSummary = flag
       /\ titleIndex = index.title
       /\ summaryIndex = index.summary
       /\ activeFilters = e.activeFilters
       /\ searchTerm = e.searchTerm
       /\ sortOrder = e.sortOrder
       /\ filteredData = e.filteredData
       /\ now = e.now
       /\ lastCall = "constructor"
       /\ ret = NoQuery
       /\ NoPage

Search ==
  \E query \in Queries :
    LET r == search(titleIndex, summaryIndex, indexSummary, query)
    IN /\ ret' = [op |-> "search", query |-> query, limit |-> DefaultLimit,
                  threw |-> r.threw, value |-> r.value]
       /\ UNCHANGED <<data, indexSummary, titleIndex, summaryIndex, activeFilters,
                      searchTerm, sortOrder, filteredData, now, lastCall, pageVars, searchBox>>

GetSuggestions ==
  \E prefix \in Queries, limit \in Limits :
    LET r == getSuggestions(titleIndex, summaryIndex, indexSummary, prefix, limit)
    IN /\ ret' = [op |-> "getSuggestions", query |-> prefix, limit |-> limit,
                  threw |-> r.threw, value |-> r.value]
       /\ UNCHANGED <<data, indexSummary, titleIndex, summaryIndex, activeFilters,
                      searchTerm, sortOrder, filteredData, now, lastCall, pageVars, searchBox>>

NextSearch ==
  \/ Search
  \/ GetSuggestions

SpecSearch == InitSearch /\ [][NextSearch]_vars

(***************************************************************************)
(* The earlier revision of SearchIndexService (src/unnamed/part_000): its  *)
(* constructor, indexData and search are those of src/app.js; its          *)
(* getSuggestions adds the words of the index as they are.                 *)
(***************************************************************************)
\* the words of the entries, in Map order, that start with term
RECURSIVE StartingWords(_, _)
StartingWords(index, term) ==
  IF index = <<>> THEN <<>>
  ELSE (IF startsWith(Head(index).word, term) THEN <<Head(index).word>> ELSE <<>>)
       \o StartingWords(Tail(index), term)

\* getSuggestions(prefix, limit) of the earlier revision
getSuggestionsPart000(tIndex, sIndex, withSummary, prefix, limit) ==
  IF Falsy(prefix) \/ trim(prefix.s) = "" THEN [threw |-> FALSE, value |-> <<>>]
  ELSE LET term == trim(toLowerCase(prefix.s))
           fromTitles == StartingWords(tIndex, term)
           fromSummaries == IF withSummary THEN StartingWords(sIndex, term) ELSE <<>>
           suggestions == Dedup(fromTitles \o fromSummaries, <<>>)
       IN [threw |-> FALSE, value |-> Slice0(SortStrings(suggestions), limit)]

GetSuggestionsPart000 ==
  \E prefix \in Queries, limit \in Limits :
    LET r == getSuggestionsPart000(titleIndex, summaryIndex, indexSummary, prefix, limit)
    IN /\ ret' = [op |-> "part_000.getSuggestions", query |-> prefix, limit |-> limit,
                  threw |-> r.threw, value |-> r.value]
       /\ UNCHANGED <<data, indexSummary, titleIndex, summaryIndex, activeFilters,
                      searchTerm, sortOrder, filteredData, now, lastCall, pageVars, searchBox>>

\* an index service of either revision, asked for suggestions
NextRevisions ==
  \/ GetSuggestions
  \/ GetSuggestionsPart000

SpecRevisions == InitSearch /\ [][NextRevisions]_vars

(***************************************************************************)
(* The engine with its read operations: new CommunicationDataService(data), *)
(* then any sequence of mutating calls and reads.                          *)
(***************************************************************************)
\* two records of Catalogue and one that holds productCategory as a single
\* string and communicationType as an array
ReadCatalogue ==
  { r \in Catalogue : r.title \in {"Fan Array Guide", " fan  FAN"} }
  \cup { [title |-> "Louver Manual", summary |-> "", date |-> "2025-03-10",
          topic |-> Arr(<<"Fans", "HVAC">>), productCategory |-> Scalar("Louvers"),
          communicationType |-> Arr(<<"Guide", "Manual">>)] }

\* collections of MaxRecords distinct records, the newest record last
ReadCollections ==
  { d \in [1..MaxRecords -> ReadCatalogue] :
      /\ \A i, j \in 1..Len(d) : i # j => d[i] # d[j]
      /\ d[MaxRecords].title = "Louver Manual" }

\* the property names passed to getUniqueValues
Properties == {"topic", "productCategory", "communicationType"}

InitReads ==
  \E rawData \in ReadCollections, clock \in Clocks :
    LET e == NewEngine(rawData, clock)
    IN /\ data = e.data
       /\ indexSummary = e.indexSummary
       /\ titleIndex = e.titleIndex
       /\ summaryIndex = e.summaryIndex
       /\ activeFilters = e.activeFilters
       /\ searchTerm = e.searchTerm
       /\ sortOrder = e.sortOrder
       /\ filteredData = e.filteredData
       /\ now = e.now
       /\ lastCall = "constructor"
       /\ ret = NoQuery
       /\ NoPage

GetFilteredData ==
  /\ ret' = [op |-> "getFilteredData", arg |-> "", threw |-> FALSE,
             value |-> getFilteredData(Engine)]
  /\ UNCHANGED <<data, indexSummary, titleIndex, summaryIndex, activeFilters,
                 searchTerm, sortOrder, filteredData, now, lastCall, pageVars, searchBox>>

GetUniqueValues ==
  \E property \in Properties :
    /\ ret' = [op |-> "getUniqueValues", arg |-> property, threw |-> FALSE,
               value |-> getUniqueValues(Engine, property)]
    /\ UNCHANGED <<data, indexSummary, titleIndex, summaryIndex, activeFilters,
                   searchTerm, sortOrder, filteredData, now, lastCall, pageVars, searchBox>>

GetActiveFilters ==
  /\ ret' = [op |-> "getActiveFilters", arg |-> "", threw |-> FALSE,
             value |-> getActiveFilters(Engine)]
  /\ UNCHANGED <<data, indexSummary, titleIndex, summaryIndex, activeFilters,
                 searchTerm, sortOrder, filteredData, now, lastCall, pageVars, searchBox>>

NextReads ==
  \/ UpdateFilter
  \/ RemoveFilter
  \/ UpdateSearch
  \/ SetSortOrder
  \/ SetTimeframe
  \/ GetFilteredData
  \/ GetUniqueValues
  \/ GetActiveFilters

SpecReads == InitReads /\ [][NextReads]_vars

(***************************************************************************)
(* CommunicationApp: the page built around one engine and one card list.   *)
(* Every element the handlers look up is present in the document.          *)
(***************************************************************************)
\* the i-th record of the collection of a page
PageRecord(i) ==
  [title |-> IF i % 5 = 0 THEN "Louver Notes" ELSE "Fan Guide",
   summary |-> "",
   date |-> IF i <= 2 THEN "2024-10-28" ELSE "2025-01-10",
   topic |-> IF i % 2 = 1 THEN Arr(<<"HVAC">>) ELSE Arr(<<"Fans">>),
   productCategory |-> Arr(<<"Dampers">>),
   communicationType |-> IF i % 3 = 0 THEN Scalar("Bulletin") ELSE Scalar("Guide")]

\* the collections of a page: no record, one more than a page, MaxPageRecords
PageCollections ==
  { [i \in 1..n |-> PageRecord(i)] : n \in {0, CardsPerPage + 1, MaxPageRecords} }

\* the checkboxes that are clicked, the timeframes chosen and the terms searched
PageCheckboxes == { <<"topics", "HVAC">>, <<"communication-type", "Guide">> }
PageTimeframes == { "All Time", "Last Month" }
PageTerms == { Str(""), Str("fan") }

\* the page after a handler left the engine as e and the card list as cl and
\* called updateDisplay; a TypeError in the engine call ends the handler
UpdatesDisplay(e, cl, name) ==
  /\ data' = e.data
  /\ indexSummary' = e.indexSummary
  /\ titleIndex' = e.titleIndex
  /\ summaryIndex' = e.summaryIndex
  /\ activeFilters' = e.activeFilters
  /\ searchTerm' = e.searchTerm
  /\ sortOrder' = e.sortOrder
  /\ filteredData' = e.filteredData
  /\ lastCall' = (IF e.threw THEN "threw" ELSE "returned")
  /\ ret' = NoQuery
  /\ lastEvent' = [name |-> name, found |-> cardList]
  /\ IF e.threw
     THEN UNCHANGED <<cardList, cards, count, loadMoreButton, chips>>
     ELSE /\ cardList' = cl
          /\ cards' = renderCards(cl, getFilteredData(e)).cards
          /\ count' = renderCards(cl, getFilteredData(e)).count
          /\ loadMoreButton' = ButtonAfterDisplay(cl, Len(getFilteredData(e)))
          /\ chips' = getActiveFilters(e)
  /\ UNCHANGED now

\* a handler of the page outside the search component
Displays(e, cl, name) == UpdatesDisplay(e, cl, name) /\ UNCHANGED searchBox

\* new CommunicationApp(): the engine, the card list, and the first updateDisplay
InitPage ==
  \E rawData \in PageCollections, clock \in Clocks :
    LET e == NewEngine(rawData, clock)
    IN /\ data = e.data
       /\ indexSummary = e.indexSummary
       /\ titleIndex = e.titleIndex
       /\ summaryIndex = e.summaryIndex
       /\ activeFilters = e.activeFilters
       /\ searchTerm = e.searchTerm
       /\ sortOrder = e.sortOrder
       /\ filteredData = e.filteredData
       /\ now = e.now
       /\ lastCall = "constructor"
       /\ ret = NoQuery
       /\ cardList = NewCardList
       /\ cards = renderCards(NewCardList, getFilteredData(e)).cards
       /\ count = renderCards(NewCardList, getFilteredData(e)).count
       /\ loadMoreButton = ButtonAfterDisplay(NewCardList, Len(getFilteredData(e)))
       /\ chips = getActiveFilters(e)
       /\ lastEvent = [name |-> "initialize", found |-> NewCardList]
       /\ searchBox = NewSearchComponent

\* handleFilterChange from a checkbox, which mirrors the selection
CheckboxChange ==
  \E box \in PageCheckboxes :
    Displays(updateFilter(Engine, box[1], box[2], ~InSeq(box[2], activeFilters[box[1]])),
             resetPagination(cardList), "checkbox")

\* handleFilterChange from the timeframe dropdown
TimeframeChange ==
  \E label \in PageTimeframes :
    Displays(setTimeframe(Engine, label), resetPagination(cardList), "timeframe")

\* handleSearch(searchTerm)
HandleSearch ==
  \E term \in PageTerms :
    Displays(updateSearch(Engine, term), resetPagination(cardList), "search")

\* the change listener of the sort dropdown
SortChange ==
  \E order \in SortOrders :
    Displays(setSortOrder(Engine, order), resetPagination(cardList), "sort")

\* the click listener of the remove button of a chip
RemoveChip ==
  \E k \in 1..Len(chips) :
    Displays(removeFilter(Engine, chips[k].type, chips[k].value),
             resetPagination(cardList), "chip")

\* the click listener of the load-more button
LoadMoreClick == Displays(Engine, toggleShowAll(cardList), "toggle")

\* the click listeners of the grid and list view buttons
ViewToggle == Displays(Engine, cardList, "view")

\* cardList.loadMore(), which renders nothing
LoadMore ==
  /\ cardList.currentPage <= MaxPages
  /\ cardList' = loadMore(cardList)
  /\ lastEvent' = [name |-> "loadMore", found |-> cardList]
  /\ UNCHANGED <<data, indexSummary, titleIndex, summaryIndex, activeFilters,
                 searchTerm, sortOrder, filteredData, now, lastCall, ret,
                 cards, count, loadMoreButton, chips, searchBox>>

NextPage ==
  \/ CheckboxChange
  \/ TimeframeChange
  \/ HandleSearch
  \/ SortChange
  \/ RemoveChip
  \/ LoadMoreClick
  \/ ViewToggle
  \/ LoadMore

SpecPage == InitPage /\ [][NextPage]_vars

(***************************************************************************)
(* SearchComponent in the page.  searchBox holds the text of               *)
(* #search-input, the field debounceTimeout (0: null), the timers armed    *)
(* by setTimeout that are still pending, each with the value its callback  *)
(* closes over and the time left in units of 100 ms, the items and the     *)
(* style.display of #search-suggestions, and selectedIndex.  It records    *)
(* also the value of the last input event, the values the timer callback   *)
(* passed to searchCallback since then, and the number of input events     *)
(* that came while a timer was pending.                                    *)
(***************************************************************************)
\* the delay passed to setTimeout, in units of 100 ms
DebounceTicks == 3

\* the id setTimeout returns: positive, the id of no pending timer, and not
\* the id still held in debounceTimeout
FreshTimer(sb) ==
  CHOOSE id \in 1..(Cardinality(sb.timers) + 2) :
    /\ id # sb.debounceTimeout /\ \A t \in sb.timers : t.id # id
    /\ \A smaller \in 1..(id - 1) :
         smaller = sb.debounceTimeout \/ \E t \in sb.timers : t.id = smaller

\* a variant of clearTimeout that cancels nothing
clearTimeoutNothing(timers, id) == timers

\* clearTimeout(id); this.debounceTimeout is null, 0 here, when nothing is
\* to be cleared
clearTimeout(timers, id) == { t \in timers : t.id # id }

\* the listener of "input" on #search-input, the input holding text
OnInput(sb, text) ==
  [sb EXCEPT !.value = text,
             !.selectedIndex = -1,
             !.timers = clearTimeout(@, sb.debounceTimeout)
                          \cup { [id |-> FreshTimer(sb), value |-> text,
                                  left |-> DebounceTicks] },
             !.debounceTimeout = FreshTimer(sb),
             !.lastInput = Str(text),
             !.timerCalls = <<>>,
             !.burst = IF sb.timers = {} THEN 1
                       ELSE IF sb.burst < MaxBurst THEN sb.burst + 1 ELSE MaxBurst]

\* suggestionsContainer.innerHTML = ""; style.display = "none"
HideSuggestions(sb) == [sb EXCEPT !.suggestions = <<>>, !.display = "none"]

\* renderSuggestions(suggestions)
renderSuggestions(sb, suggestions) ==
  IF suggestions = <<>> THEN [HideSuggestions(sb) EXCEPT !.selectedIndex = -1]
  ELSE [sb EXCEPT !.selectedIndex = -1, !.suggestions = suggestions, !.display = "block"]

\* CommunicationDataService.getSuggestions(prefix)
ServiceSuggestions(e, prefix) ==
  getSuggestions(e.titleIndex, e.summaryIndex, e.indexSummary, prefix, DefaultLimit).value

\* the callback of the timer t, after searchCallback(value) left the engine as e
OnTimer(sb, t, e) ==
  IF trim(t.value) # ""
  THEN renderSuggestions([sb EXCEPT !.timers = @ \ {t}, !.timerCalls = Append(@, Str(t.value))],
                         ServiceSuggestions(e, Str(t.value)))
  ELSE HideSuggestions([sb EXCEPT !.timers = @ \ {t}, !.timerCalls = Append(@, Str(t.value))])

\* the ArrowUp and ArrowDown branches of the keydown listener
OnArrow(sb, key) ==
  [sb EXCEPT !.selectedIndex =
     IF key = "ArrowUp"
     THEN (IF @ <= 0 THEN Len(sb.suggestions) - 1 ELSE @ - 1)
     ELSE (IF @ >= Len(sb.suggestions) - 1 THEN 0 ELSE @ + 1)]

\* the text searched by the Enter branch of the keydown listener: that of
\* the selected suggestion, or that of the input
EnteredText(sb) ==
  IF sb.selectedIndex >= 0 /\ sb.selectedIndex < Len(sb.suggestions)
  THEN sb.suggestions[sb.selectedIndex + 1] ELSE sb.value

\* the records of the page the search component is used on
DebounceCollection ==
  << [title |-> "Fan Filters", summary |-> "louver tips", date |-> "2025-01-10",
      topic |-> Arr(<<"Fans">>), productCategory |-> Arr(<<"Dampers">>),
      communicationType |-> Scalar("Guide")],
     [title |-> "Louver Notes", summary |-> "fix list", date |-> "2024-10-28",
      topic |-> Arr(<<"HVAC">>), productCategory |-> Arr(<<"Dampers">>),
      communicationType |-> Scalar("Bulletin")] >>

\* the texts typed into #search-input
InputTexts == {"", "f", "lou"}

InitDebounce ==
  \E clock \in Clocks :
    LET e == NewEngine(DebounceCollection, clock)
    IN /\ data = e.data
       /\ indexSummary = e.indexSummary
       /\ titleIndex = e.titleIndex
       /\ summaryIndex = e.summaryIndex
       /\ activeFilters = e.activeFilters
       /\ searchTerm = e.searchTerm
       /\ sortOrder = e.sortOrder
       /\ filteredData = e.filteredData
       /\ now = e.now
       /\ lastCall = "constructor"
       /\ ret = NoQuery
       /\ cardList = NewCardList
       /\ cards = renderCards(NewCardList, getFilteredData(e)).cards
       /\ count = renderCards(NewCardList, getFilteredData(e)).count
       /\ loadMoreButton = ButtonAfterDisplay(NewCardList, Len(getFilteredData(e)))
       /\ chips = getActiveFilters(e)
       /\ lastEvent = [name |-> "initialize", found |-> NewCardList]
       /\ searchBox = NewSearchComponent

\* a listener that leaves the search component as sb and calls nothing else
Leaves(sb) ==
  /\ searchBox' = sb
  /\ UNCHANGED <<data, indexSummary, titleIndex, summaryIndex, activeFilters,
                 searchTerm, sortOrder, filteredData, now, lastCall, ret, pageVars>>

\* a listener that calls searchCallback(text), handleSearch, and leaves the
\* search component as sb
Searches(text, sb) ==
  /\ UpdatesDisplay(updateSearch(Engine, Str(text)), resetPagination(cardList), "search")
  /\ searchBox' = sb

\* the user edits the text of #search-input: an input event
InputEvent ==
  \E text \in InputTexts \ {searchBox.value} : Leaves(OnInput(searchBox, text))

\* 100 ms pass; a timer whose time has come may fire later, never earlier
Tick ==
  /\ \E t \in searchBox.timers : t.left > 0
  /\ Leaves([searchBox EXCEPT !.timers =
               { [t EXCEPT !.left = IF @ > 0 THEN @ - 1 ELSE 0] : t \in @ }])

\* a timer whose time has come runs its callback
TimerFires ==
  \E t \in searchBox.timers :
    /\ t.left = 0
    /\ Searches(t.value, OnTimer(searchBox, t, Engine))

\* the click listener of #search-button
SearchButtonClick == Searches(searchBox.value, HideSuggestions(searchBox))

\* keydown of ArrowUp or ArrowDown in #search-input
ArrowKey ==
  \E key \in {"ArrowUp", "ArrowDown"} :
    IF searchBox.display = "none" \/ searchBox.suggestions = <<>>
    THEN Leaves(searchBox)
    ELSE Leaves(OnArrow(searchBox, key))

\* keydown of Enter in #search-input
EnterKey ==
  IF searchBox.display = "none" \/ searchBox.suggestions = <<>>
  THEN Leaves(searchBox)
  ELSE Searches(EnteredText(searchBox),
                HideSuggestions([searchBox EXCEPT !.value = EnteredText(searchBox)]))

\* keydown of Escape in #search-input
EscapeKey ==
  IF searchBox.display = "none" \/ searchBox.suggestions = <<>>
  THEN Leaves(searchBox)
  ELSE Leaves(HideSuggestions(searchBox))

\* the click listener of a suggestion item
SuggestionClick ==
  \E k \in 1..Len(searchBox.suggestions) :
    Searches(searchBox.suggestions[k],
             HideSuggestions([searchBox EXCEPT !.value = searchBox.suggestions[k]]))

\* a click of the document outside the search container
OutsideClick == Leaves(HideSuggestions(searchBox))

NextDebounce ==
  \/ InputEvent
  \/ Tick
  \/ TimerFires
  \/ SearchButtonClick
  \/ ArrowKey
  \/ EnterKey
  \/ EscapeKey
  \/ SuggestionClick
  \/ OutsideClick

SpecDebounce == InitDebounce /\ [][NextDebounce]_vars

(***************************************************************************)
(* convertToISO on its own: the strings it is given are composed from      *)
(* their parts, shape by shape.                                            *)
(***************************************************************************)
\* 'Month Day, Year', 'Day Month Year', 'MM/DD/YYYY', 'YYYY/MM/DD', strings
\* that start with YYYY-MM-DD, and strings of no format
DateInputs ==
  { [shape |-> "MonthDayYear", month |-> m, day |-> d, year |-> "2025", gap |-> g,
     text |-> m \o g \o d \o "," \o g \o "2025"] :
    m \in {"February", "December", "Feb", "may"}, d \in {"5", "05", "31"},
    g \in {" ", "  "} }
  \cup
  { [shape |-> "DayMonthYear", month |-> m, day |-> d, year |-> "2025", gap |-> g,
     text |-> d \o g \o m \o g \o "2025"] :
    m \in {"February", "December", "Feb", "may"}, d \in {"5", "05", "31"},
    g \in {" ", "  "} }
  \cup
  { [shape |-> "MonthDaySlashed", month |-> m, day |-> d, year |-> y, gap |-> "/",
     text |-> m \o "/" \o d \o "/" \o y] :
    m \in {"2", "12", "13"}, d \in {"5", "30", "45"}, y \in {"2025", "0999"} }
  \cup
  { [shape |-> "YearFirstSlashed", month |-> m, day |-> d, year |-> "2025", gap |-> "/",
     text |-> "2025/" \o m \o "/" \o d] :
    m \in {"2", "02", "12"}, d \in {"5", "31"} }
  \cup
  { [shape |-> "ISO", month |-> "02", day |-> "05", year |-> "2025", gap |-> suffix,
     text |-> "2025-02-05" \o suffix] :
    suffix \in {"", "T10:00:00", " approx", "5"} }
  \cup
  { [shape |-> "other", month |-> "", day |-> "", year |-> "", gap |-> "", text |-> t] :
    t \in {"", "TBD", "2025-2-5", "February 5 2025", "February 5,2025",
           "5th February 2025", "2/5/25", "2025/02", "Spring 2025",
           " February 5, 2025", "2025/2/5 ", "5 February, 2025", "2025.02.05",
           "123/5/2025", "2025/123/5", "February 5, 20255"} }

\* an engine and a card list of which only convertToISO is called
InitDates ==
  LET e == NewEngine(<<>>, CHOOSE clock \in Clocks : TRUE)
  IN /\ data = e.data
     /\ indexSummary = e.indexSummary
     /\ titleIndex = e.titleIndex
     /\ summaryIndex = e.summaryIndex
     /\ activeFilters = e.activeFilters
     /\ searchTerm = e.searchTerm
     /\ sortOrder = e.sortOrder
     /\ filteredData = e.filteredData
     /\ now = e.now
     /\ lastCall = "constructor"
     /\ ret = NoQuery
     /\ NoPage

\* owner.convertToISO(input.text), new Date(input.text) giving date
Converts(owner, input, date) ==
  /\ ret' = [op |-> "convertToISO", owner |-> owner, input |-> input,
             arg |-> input.text, date |-> date, threw |-> FALSE,
             value |-> convertToISO(input.text, date)]
  /\ UNCHANGED <<data, indexSummary, titleIndex, summaryIndex, activeFilters,
                 searchTerm, sortOrder, filteredData, now, lastCall, pageVars, searchBox>>

\* CommunicationDataService.convertToISO(dateString)
ServiceConvertToISO ==
  \E input \in DateInputs : \E date \in DatesOf(input.text) :
    Converts("CommunicationDataService", input, date)

\* CardListComponent.convertToISO(dateString)
CardListConvertToISO ==
  \E input \in DateInputs : \E date \in DatesOf(input.text) :
    Converts("CardListComponent", input, date)

NextDates ==
  \/ ServiceConvertToISO
  \/ CardListConvertToISO

SpecDates == InitDates /\ [][NextDates]_vars

(***************************************************************************)
(* The timeframe step on its own: an engine built on a day of the calendar *)
(* that is the end of a month or not, over records dated around that day,  *)
(* after it, or with a date that does not parse; then any sequence of      *)
(* timeframe and sort order changes.                                       *)
(***************************************************************************)
\* the date string YYYY-MM-DD of a day number
DateString(day) ==
  NumToString(CivilFromDays(day).y) \o "-" \o padStart2(NumToString(CivilFromDays(day).m))
    \o "-" \o padStart2(NumToString(CivilFromDays(day).d))

\* a record of the collection with a date
TimeframeRecord(date) ==
  [title |-> "Notes", summary |-> "", date |-> date, topic |-> Arr(<<"HVAC">>),
   productCategory |-> Arr(<<"Dampers">>), communicationType |-> Scalar("Guide")]

\* the days on which the engine is built and used, during the day
TimeframeClocks ==
  { DateAt(DaysFromCivil(2025, 1, 15), 1), DateAt(DaysFromCivil(2025, 3, 29), 1),
    DateAt(DaysFromCivil(2025, 3, 31), 1), DateAt(DaysFromCivil(2025, 5, 31), 1),
    DateAt(DaysFromCivil(2024, 2, 29), 1), DateAt(DaysFromCivil(2025, 10, 30), 1) }

\* how many days before the day of the clock the records are dated (a
\* negative number: after it)
TimeframeOffsets ==
  { <<0, 1, 6, 7, 8, 27, 28, 29, 30, 31, 32>>,
    <<58, 59, 62, 89, 93, 181, 185, 273, 276, 364, 365, 366, 367>>,
    <<-1, 3, -40, -400, 20>> }

\* the collections: records dated at the offsets, or those and a record
\* whose date does not parse
TimeframeCollections(clock) ==
  { [i \in 1..Len(offsets) |-> TimeframeRecord(DateString(clock.day - offsets[i]))] :
      offsets \in TimeframeOffsets }
  \cup { <<TimeframeRecord(DateString(clock.day - 3)), TimeframeRecord("TBD"),
           TimeframeRecord(DateString(clock.day + 5)), TimeframeRecord(DateString(clock.day))>> }

\* new CommunicationDataService(rawData)
InitTimeframes ==
  \E clock \in TimeframeClocks : \E rawData \in TimeframeCollections(clock) :
    LET e == NewEngine(rawData, clock)
    IN /\ data = e.data
       /\ indexSummary = e.indexSummary
       /\ titleIndex = e.titleIndex
       /\ summaryIndex = e.summaryIndex
       /\ activeFilters = e.activeFilters
       /\ searchTerm = e.searchTerm
       /\ sortOrder = e.sortOrder
       /\ filteredData = e.filteredData
       /\ now = e.now
       /\ lastCall = "constructor"
       /\ ret = NoQuery
       /\ NoPage

NextTimeframes ==
  \/ SetTimeframe
  \/ SetSortOrder

SpecTimeframes == InitTimeframes /\ [][NextTimeframes]_vars

(***************************************************************************)
(* Notions the properties are stated in.                                   *)
(***************************************************************************)
Range(seq) == { seq[i] : i \in 1..Len(seq) }

NoDuplicates(seq) == \A i, j \in 1..Len(seq) : i # j => seq[i] # seq[j]

\* the checkbox facets as a set
Facets == { FacetKeys[i] : i \in 1..Len(FacetKeys) }

\* the tokens of a text: the maximal whitespace-free pieces of its lower case
Tokens(text) ==
  LET low == toLowerCase(text)
      spans == { q \in (1..Len(low)) \X (1..Len(low)) :
                   /\ q[1] <= q[2]
                   /\ \A k \in q[1]..q[2] : ~IsSpace(CharAt(low, k))
                   /\ (q[1] = 1 \/ IsSpace(CharAt(low, q[1] - 1)))
                   /\ (q[2] = Len(low) \/ IsSpace(CharAt(low, q[2] + 1))) }
  IN { SubSeq(low, q[1], q[2]) : q \in spans }

\* the tokens a search index service holds for a record
IndexedTokens(item) ==
  Tokens(item.title) \cup (IF indexSummary THEN Tokens(item.summary) ELSE {})

\* the facet property of a record that a filter type selects on
PropertyValues(item, type) ==
  IF type = "topics" THEN Range(item.topic.v)
  ELSE IF type = "product-categories" THEN Range(item.productCategory.v)
  ELSE Range(item.communicationType.v)

AllParseable == \A i \in 1..Len(data) : ParseDate(data[i].date).valid

\* seq (positions in data) is in date order for the given sort order; equal
\* dates keep the order of the collection
InDateOrder(seq, order) ==
  \A j, k \in 1..Len(seq) :
    j < k =>
      /\ IF order = "newest"
         THEN ~StrLess(data[seq[j]].date, data[seq[k]].date)
         ELSE ~StrLess(data[seq[k]].date, data[seq[j]].date)
      /\ data[seq[j]].date = data[seq[k]].date => seq[j] < seq[k]

(***************************************************************************)
(* Properties.                                                             *)
(***************************************************************************)

\* C1: passing a filter type that is not one of the checkbox facets (an
\* unknown name, or "timeframe") to updateFilter or removeFilter never throws
\* and leaves activeFilters, searchTerm, sortOrder and the result set
\* unchanged.
C1_UnknownFacetIsNoOp ==
  \A type \in CallTypes \ Facets :
    \A value \in CallValues(type) :
      /\ \A isActive \in BOOLEAN :
           LET u == updateFilter(Engine, type, value, isActive)
           IN /\ ~u.threw
              /\ u.activeFilters = activeFilters
              /\ u.searchTerm = searchTerm
              /\ u.sortOrder = sortOrder
              /\ u.filteredData = filteredData
      /\ LET r == removeFilter(Engine, type, value)
         IN /\ ~r.threw
            /\ r.activeFilters = activeFilters
            /\ r.searchTerm = searchTerm
            /\ r.sortOrder = sortOrder
            /\ r.filteredData = filteredData

\* C2: with an empty search and timeframe "All Time", a record is in the
\* result set iff it matches every facet with a non-empty selection: one of
\* the selected values is among the values of its property (an element of the
\* array, or the scalar itself).
C2_FacetLaw ==
  (searchTerm = Str("") /\ activeFilters["timeframe"] = "All Time") =>
    \A i \in 1..Len(data) :
      InSeq(i, filteredData) <=>
        \A type \in Facets :
          activeFilters[type] # <<>> =>
            PropertyValues(data[i], type) \cap Range(activeFilters[type]) # {}

\* C2 witness: two facets are selected; a record passes and another does not
C2_Witness ==
  /\ searchTerm = Str("") /\ activeFilters["timeframe"] = "All Time"
  /\ lastCall = "returned"
  /\ Len(activeFilters["topics"]) = 2
  /\ activeFilters["communication-type"] # <<>>
  /\ Len(filteredData) > 0 /\ Len(filteredData) < Len(data)

\* C3: for a query that is not empty or blank, search returns exactly the
\* records owning an indexed token that contains lower(trim(query)), each once.
C3_SearchExact ==
  (ret.op = "search" /\ ~Falsy(ret.query) /\ trim(ret.query.s) # "") =>
    /\ NoDuplicates(ret.value)
    /\ Range(ret.value) =
         { i \in 1..Len(data) :
             \E w \in IndexedTokens(data[i]) :
               includes(w, toLowerCase(trim(ret.query.s))) }

\* C3 witness: a search found a record through a summary token only, and left
\* another record out
C3_Witness ==
  /\ ret.op = "search" /\ ~Falsy(ret.query) /\ indexSummary
  /\ Len(ret.value) > 0 /\ Len(ret.value) < Len(data)
  /\ \E i \in Range(ret.value) :
       \A w \in Tokens(data[i].title) : ~includes(w, toLowerCase(trim(ret.query.s)))

\* C4 as claimed: getSuggestions(p, n) returns at most n strings, all distinct,
\* ascending, every one starting with lower(trim(p)).
C4_AllStartWithPrefix ==
  ret.op = "getSuggestions" =>
    /\ Len(ret.value) <= ret.limit
    /\ NoDuplicates(ret.value)
    /\ \A j, k \in 1..Len(ret.value) : j < k => StrLess(ret.value[j], ret.value[k])
    /\ \A j \in 1..Len(ret.value) :
         startsWith(ret.value[j], toLowerCase(trim(ret.query.s)))

\* C4 as amended: getSuggestions(p, n) returns at most n strings, all distinct,
\* ascending, every one an indexed token that starts with lower(trim(p)), with
\* its colons removed; so every one starts with lower(trim(p)) when p holds no
\* colon.
C4_SuggestionsOfPrefix ==
  ret.op = "getSuggestions" =>
    /\ Len(ret.value) <= ret.limit
    /\ NoDuplicates(ret.value)
    /\ \A j, k \in 1..Len(ret.value) : j < k => StrLess(ret.value[j], ret.value[k])
    /\ \A j \in 1..Len(ret.value) :
         /\ \E i \in 1..Len(data) :
              \E w \in IndexedTokens(data[i]) :
                /\ startsWith(w, toLowerCase(trim(ret.query.s)))
                /\ ret.value[j] = stripColons(w)
         /\ ~includes(ret.query.s, ":") =>
              startsWith(ret.value[j], toLowerCase(trim(ret.query.s)))

\* C4 witness: a prefix with a colon got a suggestion
C4_Witness ==
  /\ ret.op = "getSuggestions"
  /\ includes(ret.query.s, ":")
  /\ Len(ret.value) > 0

\* C5: search and getSuggestions return an empty collection, without
\* throwing, for an empty, blank, null or undefined query.
C5_EmptyQuery ==
  (ret.op \in {"search", "getSuggestions"}
     /\ (Falsy(ret.query) \/ trim(ret.query.s) = "")) =>
    (~ret.threw /\ ret.value = <<>>)

\* C5 witness: null was searched for in a non-empty index
C5_Witness ==
  /\ ret.op = "search" /\ ret.query = Null /\ ~ret.threw
  /\ Len(titleIndex) > 0

\* C6: no selection ever holds a value twice; updateFilter(f, v, true) adds v
\* unless it is selected; updateFilter(f, v, false) removes v, and when v is
\* not selected it does not throw and leaves every selection and the content
\* of the result set unchanged.
C6_SelectionIsASet ==
  \A type \in Facets :
    /\ NoDuplicates(activeFilters[type])
    /\ \A value \in CallValues(type) :
         LET on == updateFilter(Engine, type, value, TRUE)
             off == updateFilter(Engine, type, value, FALSE)
         IN /\ ~on.threw /\ ~off.threw
            /\ on.activeFilters[type] =
                 (IF InSeq(value, activeFilters[type]) THEN activeFilters[type]
                  ELSE Append(activeFilters[type], value))
            /\ \A other \in FilterKeys \ {type} :
                 /\ on.activeFilters[other] = activeFilters[other]
                 /\ off.activeFilters[other] = activeFilters[other]
            /\ Range(off.activeFilters[type]) = Range(activeFilters[type]) \ {value}
            /\ ~InSeq(value, activeFilters[type]) =>
                 /\ off.activeFilters = activeFilters
                 /\ Range(off.filteredData) = Range(filteredData)

\* C6 witness: both topics are selected, after calls that returned
C6_Witness ==
  /\ lastCall = "returned"
  /\ Len(activeFilters["topics"]) = 2
  /\ activeFilters["product-categories"] = <<>>

\* C7: for a facet f and a value v that is not selected, updateFilter(f, v,
\* true) followed by removeFilter(f, v) restores the selections and the result
\* set; removeFilter("timeframe", x) sets the timeframe to "All Time".
C7_RemoveInvertsSelect ==
  /\ \A type \in Facets :
       \A value \in CallValues(type) :
         ~InSeq(value, activeFilters[type]) =>
           LET back == removeFilter(updateFilter(Engine, type, value, TRUE), type, value)
           IN /\ ~back.threw
              /\ back.activeFilters = activeFilters
              /\ back.filteredData = filteredData
  /\ \A x \in CallValues("timeframe") :
       removeFilter(Engine, "timeframe", x).activeFilters["timeframe"] = "All Time"

\* C8: getActiveFilters returns exactly one entry per selected (facet, value)
\* pair, plus one "timeframe" entry iff the timeframe is not "All Time".
C8_ActiveFiltersExact ==
  LET out == getActiveFilters(Engine)
      expected ==
        { p \in Facets \X UNION { CallValues(type) : type \in Facets } :
            InSeq(p[2], activeFilters[p[1]]) }
        \cup (IF activeFilters["timeframe"] # "All Time"
              THEN { <<"timeframe", activeFilters["timeframe"]>> } ELSE {})
  IN /\ NoDuplicates(out)
     /\ { <<out[j].type, out[j].value>> : j \in 1..Len(out) } = expected
     /\ Len(out) = Cardinality(expected)

\* C8 witness: facet values and a timeframe are active
C8_Witness ==
  /\ Len(activeFilters["topics"]) = 2
  /\ activeFilters["communication-type"] # <<>>
  /\ activeFilters["timeframe"] = "Last Month"

\* C9: after a mutating call that returned, on a collection whose dates all
\* parse, the result set is in date order for the sort order (non-increasing
\* for "newest", non-decreasing for "oldest"), equal dates in collection order.
C9_SortedAfterCall ==
  (lastCall = "returned" /\ AllParseable) => InDateOrder(filteredData, sortOrder)

\* C9 witness: a call returned and the sort had put the second record of the
\* collection before the first
C9_Witness ==
  /\ lastCall = "returned" /\ AllParseable
  /\ sortOrder = "newest"
  /\ Len(filteredData) = 2
  /\ filteredData[1] > filteredData[2]

\* C10: right after construction the result set is the sorted view for the
\* default sort order "newest", whatever the order of the record collection.
C10_SortedAtConstruction ==
  (lastCall = "constructor" /\ AllParseable) => InDateOrder(filteredData, "newest")

\* the calls updateFilter(type, v, true) for the values v of a sequence
RECURSIVE SelectEach(_, _, _)
SelectEach(e, type, values) ==
  IF values = <<>> THEN e
  ELSE SelectEach(updateFilter(e, type, Head(values), TRUE), type, Tail(values))

\* for the facets keys[1..n]: the values of the selection af, selected in
\* ascending order of the values
RECURSIVE SelectFacets(_, _, _)
SelectFacets(e, af, n) ==
  IF n = 0 THEN e
  ELSE SelectEach(SelectFacets(e, af, n - 1), FacetKeys[n], SortStrings(af[FacetKeys[n]]))

\* a second history that ends in the facet selections, search term, sort order
\* and timeframe of the current state: on a fresh engine over the same
\* collection and clock, the selected values are selected in ascending order,
\* then the term, the sort order and the timeframe are set
Replayed ==
  setTimeframe(
    setSortOrder(
      updateSearch(SelectFacets(NewEngine(data, now), activeFilters, Len(FacetKeys)),
                   searchTerm),
      sortOrder),
    activeFilters["timeframe"])

\* C11: the result set depends on the current state only: the history of the
\* engine and the history Replayed, which end with the same selected value
\* sets per facet, search term, sort order and timeframe, give the same
\* getFilteredData() sequence at the same clock.
C11_HistoryIndependent ==
  /\ \A type \in Facets :
       Range(Replayed.activeFilters[type]) = Range(activeFilters[type])
  /\ Replayed.searchTerm = searchTerm
  /\ Replayed.sortOrder = sortOrder
  /\ Replayed.activeFilters["timeframe"] = activeFilters["timeframe"]
  /\ getFilteredData(Replayed) = getFilteredData(Engine)

\* search terms that are not blank, and blank ones
TermsToSearch == { Str(" Fan "), Str("guide"), Str("fan a") }
BlankTerms == { Str(""), Str(" "), Str(" \t") }

\* C12: updateSearch(term) with a term that is not blank keeps exactly the
\* records that pass the other filters and are in search(term); updateSearch
\* with an empty or whitespace-only term afterwards gives the result set of the
\* other filters alone, which is the result set from before the search when
\* the engine came from a call with a blank term.
C12_SearchRoundTrip ==
  \A term \in TermsToSearch :
    LET searched == updateSearch(Engine, term)
        alone == updateSearch(Engine, Str(""))
        found == search(titleIndex, summaryIndex, indexSummary, term).value
    IN /\ ~searched.threw
       /\ NoDuplicates(searched.filteredData)
       /\ Range(searched.filteredData) = Range(alone.filteredData) \cap Range(found)
       /\ \A blank \in BlankTerms :
            LET cleared == updateSearch(searched, blank)
            IN /\ ~cleared.threw
               /\ cleared.activeFilters = activeFilters
               /\ cleared.filteredData = alone.filteredData
               /\ (lastCall = "returned" /\ searchTerm \in BlankTerms) =>
                    cleared.filteredData = filteredData

\* C12 witness: a term is searched for while a facet value is selected, and the
\* search left out a record that passes the other filters
C12_Witness ==
  /\ lastCall = "returned"
  /\ searchTerm \in TermsToSearch
  /\ activeFilters["topics"] # <<>>
  /\ Len(filteredData) > 0
  /\ Len(filteredData) < Len(updateSearch(Engine, Str(" ")).filteredData)

\* C13: no call of updateFilter, removeFilter, updateSearch, setSortOrder, the
\* timeframe change, getFilteredData, getUniqueValues or getActiveFilters
\* adds, removes or reorders a record of the data collection, and none changes
\* the search index built at construction.
C13_CollectionFixed ==
  [][/\ data' = data
     /\ indexSummary' = indexSummary
     /\ titleIndex' = titleIndex
     /\ summaryIndex' = summaryIndex]_vars

\* C13 witness: the sort has put the last record of the collection first in
\* the result set, and a read followed
C13_Witness ==
  /\ lastCall = "returned"
  /\ ret.op = "getFilteredData"
  /\ Len(data) > 1
  /\ StrLess(data[1].date, data[Len(data)].date)
  /\ Len(ret.value) = Len(data)
  /\ ret.value[1] = Len(data)

\* the places <<n, i>> at which the records hold x as a value of a property:
\* the i-th element of the array of record n, or its single string (i = 1)
PlacesOf(x, property) ==
  { q \in (1..Len(data)) \X (1..2) :
      /\ q[2] <= Len(ItemField(data[q[1]], property).v)
      /\ ItemField(data[q[1]], property).v[q[2]] = x }

\* x is seen before y when the records are read in order
SeenBefore(x, y, property) ==
  \E q \in PlacesOf(x, property) :
    \A r \in PlacesOf(y, property) :
      q[1] < r[1] \/ (q[1] = r[1] /\ q[2] < r[2])

\* C19: getUniqueValues(facet) returns exactly the distinct strings that occur
\* as a value of the facet across all records, whether a record holds the
\* facet as a single string or as an array of strings, each once and in
\* first-seen order.
C19_UniqueValuesExact ==
  ret.op = "getUniqueValues" =>
    /\ \A j \in 1..Len(ret.value) : ret.value[j].kind = "string"
    /\ { ret.value[j].s : j \in 1..Len(ret.value) } =
         UNION { Range(ItemField(data[n], ret.arg).v) : n \in 1..Len(data) }
    /\ NoDuplicates(ret.value)
    /\ \A j, k \in 1..Len(ret.value) :
         j < k => SeenBefore(ret.value[j].s, ret.value[k].s, ret.arg)

\* the number of cards of the page window over n records
WindowSize(n) ==
  IF cardList.isShowingAll \/ cardList.cardsPerPage * cardList.currentPage > n THEN n
  ELSE cardList.cardsPerPage * cardList.currentPage

\* C14: renderCards(data) renders all of data when isShowingAll is true,
\* whatever currentPage is, and otherwise exactly the first
\* min(cardsPerPage * currentPage, |data|) items in the order of data, with
\* cardsPerPage = 24; it reports |data| as the total count.  Every handler
\* that renders leaves the container and the count so.
C14_PageWindow ==
  LET r == renderCards(cardList, filteredData)
  IN /\ cardList.cardsPerPage = 24
     /\ r.count = Len(filteredData)
     /\ Len(r.cards) = WindowSize(Len(filteredData))
     /\ \A j \in 1..Len(r.cards) : r.cards[j] = filteredData[j]
     /\ lastEvent.name \notin {"none", "loadMore"} =>
          (cards = r.cards /\ count = r.count)

\* C14 witness: the second page is rendered and the window ends before the
\* end of the result set
C14_Witness ==
  /\ lastEvent.name = "view"
  /\ ~cardList.isShowingAll
  /\ cardList.currentPage = 2
  /\ Len(cards) = 48
  /\ count > 48

\* C15: a step of the page that changes the facet selections, the timeframe,
\* the search term or the sort order leaves currentPage = 1 and isShowingAll =
\* false, and the cards rendered are the first page of the new result set.
C15_PaginationReset ==
  [][(activeFilters' # activeFilters \/ searchTerm' # searchTerm \/ sortOrder' # sortOrder)
       => /\ cardList'.currentPage = 1
          /\ cardList'.isShowingAll = FALSE
          /\ count' = Len(filteredData')
          /\ Len(cards') = (IF Len(filteredData') > 24 THEN 24 ELSE Len(filteredData'))
          /\ \A j \in 1..Len(cards') : cards'[j] = filteredData'[j]]_vars

\* C15 witness: a chip was removed while all cards of page two were shown, and
\* the first page of a longer result set is rendered
C15_Witness ==
  /\ lastEvent.name = "chip"
  /\ lastEvent.found.isShowingAll
  /\ lastEvent.found.currentPage = 2
  /\ cardList = NewCardList
  /\ Len(cards) = 24
  /\ count > 24

\* what new Date(ret.value) can give after new Date(ret.arg) gave ret.date:
\* the same date for the same string
DatesOfValue ==
  IF ret.value = ret.arg THEN { ret.date } ELSE DatesOf(ret.value)

\* C16: convertToISO is idempotent: converting the value it returned returns
\* that value again, in the service and in the card list, whatever
\* new Date gives for the value
C16_Idempotent ==
  ret.op = "convertToISO" =>
    \A date \in DatesOfValue : convertToISO(ret.value, date) = ret.value

\* a string was rewritten, and a string that new Date turned into a date
\* with a year of three digits was rewritten, by each of the two owners
C16_Witness ==
  /\ ret.op = "convertToISO"
  /\ ret.owner = "CardListComponent"
  /\ ret.input.shape = "MonthDaySlashed"
  /\ ret.value = "999-02-05"

\* the two digits of a day or month text of one or two digits
TwoDigits(t) == IF Len(t) = 1 THEN "0" \o t ELSE t

\* the number MM of a full English month name
MonthNumber(name) ==
  CASE name = "January" -> "01" [] name = "February" -> "02"
    [] name = "March" -> "03" [] name = "April" -> "04" [] name = "May" -> "05"
    [] name = "June" -> "06" [] name = "July" -> "07" [] name = "August" -> "08"
    [] name = "September" -> "09" [] name = "October" -> "10"
    [] name = "November" -> "11" [] name = "December" -> "12"

FullMonthNames ==
  {"January", "February", "March", "April", "May", "June", "July", "August",
   "September", "October", "November", "December"}

\* C17: 'Month Day, Year' and 'Day Month Year' with a full English month
\* name, and 'YYYY/MM/DD', are converted to YYYY-MM-DD with month and day
\* padded to two digits
C17_ConvertsKnownFormats ==
  ret.op = "convertToISO" =>
    /\ (ret.input.shape \in {"MonthDayYear", "DayMonthYear"}
          /\ ret.input.month \in FullMonthNames)
         => ret.value = ret.input.year \o "-" \o MonthNumber(ret.input.month)
                          \o "-" \o TwoDigits(ret.input.day)
    /\ ret.input.shape = "YearFirstSlashed"
         => ret.value = ret.input.year \o "-" \o TwoDigits(ret.input.month)
                          \o "-" \o TwoDigits(ret.input.day)

\* a day of one digit after a month name was padded
C17_Witness ==
  /\ ret.op = "convertToISO"
  /\ ret.input.shape = "MonthDayYear"
  /\ ret.input.text = "February  5,  2025"
  /\ ret.value = "2025-02-05"

HasColon(s) == \E i \in 1..Len(s) : CharAt(s, i) = ":"

\* C20: in both revisions of getSuggestions no returned suggestion contains
\* a colon
C20_NoColonInSuggestions ==
  ret.op \in {"getSuggestions", "part_000.getSuggestions"} =>
    \A i \in 1..Len(ret.value) : ~HasColon(ret.value[i])

\* the day that lies a window before day: 7 days, or 1, 3, 6, 9, 12 months
\* of the calendar; when the month reached has no such day of the month the
\* day is the last of that month, or the days past its end are counted into
\* the next month
MonthsOf(timeframe) ==
  CASE timeframe = "Last Month" -> 1 [] timeframe = "Last 3 Months" -> 3
    [] timeframe = "Last 6 Months" -> 6 [] timeframe = "Last 9 Months" -> 9
    [] timeframe = "Last Year" -> 12 [] OTHER -> 0

WindowStarts(day, timeframe) ==
  IF timeframe = "Last Week" THEN { day - 7 }
  ELSE LET c == CivilFromDays(day)
           first == MakeDay(c.y, c.m - 1 - MonthsOf(timeframe), 1)
           next == MakeDay(c.y, c.m - MonthsOf(timeframe), 1)
       IN { first + c.d - 1, IF first + c.d - 1 < next THEN first + c.d - 1 ELSE next - 1 }

\* the records of the collection, by position, whose date parses
Parseable == { i \in 1..Len(data) : ParseDate(data[i].date).valid }

DayOf(i) == ParseDate(data[i].date).day

\* C21: under a timeframe other than "All Time" (no search, no selection), a
\* record dated today or earlier is in the result set iff its date is in
\* [now - window, now], at day granularity, for one reading of the window
C21_PastWindow ==
  (lastCall = "returned" /\ activeFilters["timeframe"] # "All Time")
    => \E start \in WindowStarts(now.day, activeFilters["timeframe"]) :
         \A i \in Parseable :
           DayOf(i) <= now.day
             => (InSeq(i, filteredData) <=> (start <= DayOf(i) /\ DayOf(i) <= now.day))

\* the records of the collection dated after today
Future == { i \in Parseable : DayOf(i) > now.day }

\* C22: under a timeframe other than "All Time" (no search, no selection), a
\* record dated after today is in the result set iff its date is in
\* [its date - window, its date], however far after today it is
C22_FutureWindow ==
  (lastCall = "returned" /\ activeFilters["timeframe"] # "All Time")
    => \A i \in Future :
         InSeq(i, filteredData)
           <=> \A start \in WindowStarts(DayOf(i), activeFilters["timeframe"]) :
                 start <= DayOf(i) /\ DayOf(i) <= DayOf(i)

\* under "Last Week" the result set holds a record dated more than a year
\* after today
C22_Witness ==
  /\ lastCall = "returned" /\ activeFilters["timeframe"] = "Last Week"
  /\ \E i \in Future : DayOf(i) > now.day + 366 /\ InSeq(i, filteredData)

\* the places of seq (positions in data) that hold a record whose date parses
ParseablePlaces(seq) == { j \in 1..Len(seq) : seq[j] \in Parseable }

\* C23: after a mutating call that returned, the records of the result set
\* whose date parses are in date order among themselves for the sort order,
\* and the records whose date does not parse come after all of them
C23_UnparsableLast ==
  lastCall = "returned" =>
    /\ \A j, k \in ParseablePlaces(filteredData) :
         j < k => IF sortOrder = "newest"
                  THEN DayOf(filteredData[j]) >= DayOf(filteredData[k])
                  ELSE DayOf(filteredData[j]) <= DayOf(filteredData[k])
    /\ \A j, k \in 1..Len(filteredData) :
         (j \notin ParseablePlaces(filteredData) /\ k \in ParseablePlaces(filteredData))
           => k < j

\* C24: at most one debounce timer is pending, and it is the one armed by
\* the last input event, with the value of that event; since the last input
\* event the timer has called searchCallback not at all while it is pending,
\* and exactly once, with the value of that event, when it is pending no more
C24_Debounce ==
  /\ Cardinality(searchBox.timers) <= 1
  /\ \A t \in searchBox.timers :
       t.id = searchBox.debounceTimeout /\ Str(t.value) = searchBox.lastInput
  /\ searchBox.lastInput # Null =>
       searchBox.timerCalls
         = (IF searchBox.timers = {} THEN <<searchBox.lastInput>> ELSE <<>>)

\* input events came while the timer was pending, and the timer has called
\* searchCallback once, with the text of the last of them
C24_Witness ==
  /\ searchBox.burst >= 2
  /\ searchBox.timers = {}
  /\ searchBox.timerCalls = <<Str("lou")>>
  /\ searchTerm = Str("lou")

\* C25: once no debounce timer is pending, the search term of the engine is
\* the text of the search input
C25_TermIsInputText ==
  searchBox.timers = {} => searchTerm = Str(searchBox.value)

\* the result set of the engine under timeframe, all else as it is
ResultUnder(timeframe) ==
  Range(FilteredOf([Engine EXCEPT !.activeFilters["timeframe"] = timeframe]))

\* the time frames whose cutoff is a number of months or a year before now
MonthFrames == { t \in Range(timeframes) : MonthsOf(t) > 0 }

\* C26: for every current date the time frames are nested, Last Week within
\* Last Month within Last 3 Months, ..., within Last Year within All Time: a
\* record of the result set under a shorter frame is in the result set under
\* every longer one; and the cutoff of a frame of months is never later than
\* seven days before now
C26_FramesNested ==
  /\ \A i \in 1..(Len(timeframes) - 1) :
       ResultUnder(timeframes[i + 1]) \subseteq ResultUnder(timeframes[i])
  /\ \A t \in MonthFrames :
       Midnight(FilterDate(t, now)).day <= Midnight(now).day - 7

\* C27: after every updateDisplay, in every pagination state reached through
\* resetPagination, loadMore and toggleShowAll, the load-more button is
\* hidden iff the result set is empty; when it is shown it reads "SHOW LESS"
\* iff every record of the result set is rendered, and "LOAD MORE" iff some
\* record of the result set is not rendered
C27_ButtonTellsWhatIsRendered ==
  (lastEvent.name # "loadMore" /\ lastCall # "threw")
    => /\ loadMoreButton.display = "none" <=> Len(filteredData) = 0
       /\ Len(filteredData) > 0 =>
            /\ loadMoreButton.textContent = "SHOW LESS"
                 <=> Len(cards) = Len(filteredData)
            /\ loadMoreButton.textContent = "LOAD MORE"
                 <=> Len(cards) < Len(filteredData)

\* C28: whenever convertToISO returns a string other than its input, for an
\* input of the shape 'Month Day, Year' or 'Day Month Year', whatever the
\* word at the place of the month, the month of the returned YYYY-MM-DD is
\* one of 01, ..., 12
C28_MonthInRange ==
  (/\ ret.op = "convertToISO"
   /\ ret.input.shape \in {"MonthDayYear", "DayMonthYear"}
   /\ ret.value # ret.arg)
    => SubSeq(ret.value, 6, 7) \in { MonthNumber(name) : name \in FullMonthNames }

\* the records of the collection, by position, whose date does not parse
Unparsable == (1..Len(data)) \ Parseable

\* C29: the timeframe step does not throw on a record whose date does not
\* parse; the record is in the result set under "All Time" and under no other
\* timeframe; so under every timeframe the records with such a date that are
\* shown are among those shown under "All Time"
C29_UnparsableOnlyUnderAllTime ==
  /\ lastCall # "threw"
  /\ \A i \in Unparsable :
       InSeq(i, filteredData) <=> activeFilters["timeframe"] = "All Time"
  /\ \A t \in Range(timeframes) :
       /\ t # "All Time" => ResultUnder(t) \cap Unparsable = {}
       /\ (ResultUnder(t) \cap Unparsable) \subseteq ResultUnder("All Time")
  /\ Unparsable \subseteq ResultUnder("All Time")

\* under "Last Week" the result set has records but not the one dated "TBD"
C29_Witness ==
  /\ lastCall = "returned"
  /\ activeFilters["timeframe"] = "Last Week"
  /\ \E i \in Unparsable : data[i].date = "TBD" /\ ~InSeq(i, filteredData)
  /\ filteredData # <<>>

\* the summary of record i has a token that contains term, and its title has
\* no such token
InSummaryOnly(i, term) ==
  /\ \E w \in Tokens(data[i].summary) : includes(w, term)
  /\ ~\E w \in Tokens(data[i].title) : includes(w, term)

\* the words of the titles of the collection, as suggestions show them
TitleWords == { stripColons(w) : w \in UNION { Tokens(data[i].title) : i \in 1..Len(data) } }

\* prefixes of words of the summaries of the collection
SummaryPrefixes == { Str("f"), Str("fix"), Str("lou"), Str("ti") }

\* C30: the engine searches titles only: its index service is built with
\* summary indexing off; after a search for a term, a record whose summary
\* contains the term and none of whose title tokens contains it is not in
\* the result set; and every suggestion of the engine is a word of a title
C30_TitleOnly ==
  /\ ~indexSummary
  /\ (lastCall = "returned" /\ ~Falsy(searchTerm) /\ trim(searchTerm.s) # "")
       => \A i \in 1..Len(data) :
            InSummaryOnly(i, trim(toLowerCase(searchTerm.s))) => ~InSeq(i, filteredData)
  /\ Range(searchBox.suggestions) \subseteq TitleWords
  /\ \A prefix \in SummaryPrefixes :
       Range(ServiceSuggestions(Engine, prefix)) \subseteq TitleWords

\* "f" was searched and suggested: the record whose summary alone has a word
\* with f is not in the result set, and that word is not suggested
C30_Witness ==
  /\ lastCall = "returned"
  /\ searchTerm = Str("f")
  /\ \E i \in 1..Len(data) : InSummaryOnly(i, "f") /\ ~InSeq(i, filteredData)
  /\ filteredData # <<>>
  /\ searchBox.suggestions = <<"fan", "filters">>

====
